---- MODULE Spec2Model ----
(***************************************************************************)
(* English Buddy: the grammar-check pipeline (scripts/check_grammar.py),   *)
(* the retry drain (scripts/recall.py), the structured store (lib/db.py)   *)
(* and the log writer (lib/obsidian.py).                                   *)
(*                                                                         *)
(* Python values are modelled as follows.  A str is a sequence of          *)
(* one-character strings, so that str.lower(), str.split() and the regular *)
(* expressions are computed; a list is a sequence.  None, where a str or a *)
(* list is expected, is the value None below.  A dict is a function whose  *)
(* DOMAIN is its key set.  A calendar date is a day number                 *)
(* (date.isoformat() is injective and order preserving on dates).          *)
(***************************************************************************)
EXTENDS Integers, Sequences, FiniteSets, TLC

\* ------------------------------------------------------------------ bounds
MaxDay == 1
MaxCorrections == 2
MaxErrors == 3

\* --------------------------------------------------------- python helpers
None == <<"None">>

Get(d, k, default) == IF k \in DOMAIN d THEN d[k] ELSE default

Truthy(s) == s # None /\ s # <<>>

UpperLetters ==
  <<"A","B","C","D","E","F","G","H","I","J","K","L","M",
    "N","O","P","Q","R","S","T","U","V","W","X","Y","Z">>
LowerLetters ==
  <<"a","b","c","d","e","f","g","h","i","j","k","l","m",
    "n","o","p","q","r","s","t","u","v","w","x","y","z">>

\* str.lower() of one character; the Kelvin sign U+212A lowers to "k".
LowerChar(c) ==
  IF \E i \in 1..26 : UpperLetters[i] = c
  THEN LowerLetters[CHOOSE i \in 1..26 : UpperLetters[i] = c]
  ELSE IF c = "U+212A" THEN "k"
  ELSE c

Lower(s) == [i \in 1..Len(s) |-> LowerChar(s[i])]

\* ------------------------------------------------------------- characters
\* The characters texts are made of.  "U+4E2D" and "U+6587" stand for the
\* CJK ideographs of these code points, "U+00E9" for a letter that is
\* neither CJK nor a-z, "U+212A" for the Kelvin sign, a letter that is not
\* a-z or A-Z and whose lower case is k.
AsciiLetters == {UpperLetters[i] : i \in 1..26} \cup {LowerLetters[i] : i \in 1..26}
CJKChars == {"U+4E2D", "U+6587"}
OtherLetters == {"U+00E9", "U+212A"}
Digits == {"0", "1", "2", "3", "4", "5", "6", "7", "8", "9"}
Whitespace == {" ", "\t", "\n"}

\* '一' <= char <= '鿿'
IsCJK(c) == c \in CJKChars
\* 'a' <= char.lower() <= 'z'
IsLatin(c) == LowerChar(c) \in {LowerLetters[i] : i \in 1..26}
\* \s, \d, \W of the re module on str patterns
IsSpace(c) == c \in Whitespace
IsDigit(c) == c \in Digits
IsNonWord(c) == c \notin (AsciiLetters \cup CJKChars \cup OtherLetters \cup Digits \cup {"_"})

\* str.strip()
RECURSIVE LStrip(_)
LStrip(t) == IF t # <<>> /\ IsSpace(Head(t)) THEN LStrip(Tail(t)) ELSE t
RECURSIVE RStrip(_)
RStrip(t) ==
  IF t # <<>> /\ IsSpace(t[Len(t)]) THEN RStrip(SubSeq(t, 1, Len(t) - 1)) ELSE t
Strip(t) == RStrip(LStrip(t))

\* str.split(): the maximal runs of non-whitespace characters
RECURSIVE TokenLen(_)
TokenLen(t) == IF t = <<>> \/ IsSpace(Head(t)) THEN 0 ELSE 1 + TokenLen(Tail(t))
RECURSIVE Split(_)
Split(t) ==
  IF t = <<>> THEN <<>>
  ELSE IF IsSpace(Head(t)) THEN Split(Tail(t))
  ELSE <<SubSeq(t, 1, TokenLen(t))>> \o Split(SubSeq(t, TokenLen(t) + 1, Len(t)))

\* re.compile(r'[a-zA-Z]{2,}').search(text)
contains_english(text) ==
  \E i \in 1..(Len(text) - 1) : text[i] \in AsciiLetters /\ text[i + 1] \in AsciiLetters

\* re.sub(r'[\s\d\W]+', '', text), then the scan for a Latin letter
is_pure_chinese(text) ==
  LET cleaned == SelectSeq(text, LAMBDA c : ~(IsSpace(c) \/ IsDigit(c) \/ IsNonWord(c)))
  IN  IF cleaned = <<>> THEN TRUE
      ELSE ~ \E i \in 1..Len(cleaned) : ~IsCJK(cleaned[i]) /\ IsLatin(cleaned[i])

\* chinese_count > (chinese_count + english_count) * 0.3
is_primarily_chinese_AtLeast(text) ==
  LET chinese_count == Cardinality({i \in 1..Len(text) : IsCJK(text[i])})
      english_count == Cardinality({i \in 1..Len(text) : ~IsCJK(text[i]) /\ IsLatin(text[i])})
  IN  IF chinese_count + english_count = 0 THEN TRUE
      ELSE 10 * chinese_count >= 3 * (chinese_count + english_count)

\* chinese_count > (chinese_count + english_count) * 0.3: for the counts of
\* the texts here the floating-point product compares with chinese_count as
\* the exact one does.
is_primarily_chinese(text) ==
  LET chinese_count == Cardinality({i \in 1..Len(text) : IsCJK(text[i])})
      english_count == Cardinality({i \in 1..Len(text) : ~IsCJK(text[i]) /\ IsLatin(text[i])})
  IN  IF chinese_count + english_count = 0 THEN TRUE
      ELSE 10 * chinese_count > 3 * (chinese_count + english_count)

should_check_grammar_NoStrip(text) ==
  IF ~Truthy(text) \/ Strip(text) = <<>> THEN FALSE
  ELSE IF Head(text) = "/" THEN FALSE
  ELSE IF is_pure_chinese(text) THEN FALSE
  ELSE IF is_primarily_chinese(text) THEN FALSE
  ELSE IF ~contains_english(text) THEN FALSE
  ELSE IF Len(Split(text)) < 3 THEN FALSE
  ELSE TRUE

should_check_grammar_TwoWords(text) ==
  IF ~Truthy(text) \/ Strip(text) = <<>> THEN FALSE
  ELSE IF Head(Strip(text)) = "/" THEN FALSE
  ELSE IF is_pure_chinese(text) THEN FALSE
  ELSE IF is_primarily_chinese(text) THEN FALSE
  ELSE IF ~contains_english(text) THEN FALSE
  ELSE IF Len(Split(text)) < 2 THEN FALSE
  ELSE TRUE

should_check_grammar_WordsOnly(text) == Len(Split(text)) >= 3

should_check_grammar(text) ==
  IF ~Truthy(text) \/ Strip(text) = <<>> THEN FALSE
  ELSE IF Head(Strip(text)) = "/" THEN FALSE
  ELSE IF is_pure_chinese(text) THEN FALSE
  ELSE IF is_primarily_chinese(text) THEN FALSE
  ELSE IF ~contains_english(text) THEN FALSE
  ELSE IF Len(Split(text)) < 3 THEN FALSE
  ELSE TRUE

\* ------------------------------------------------------------ categories
spelling == <<"s","p","e","l","l","i","n","g">>
grammar == <<"g","r","a","m","m","a","r">>
style == <<"s","t","y","l","e">>
vocabulary == <<"v","o","c","a","b","u","l","a","r","y">>

Categories == {spelling, grammar, style, vocabulary}

CategoryValues == Categories \cup {<<"S","t","y","l","e">>, <<"t","y","p","o">>, None}

\* ------------------------------------------------------------- the clock
Days == 0..MaxDay

\* ------------------------------------------------ analyzer findings (dicts)
ErrorKeys == {"original", "correction", "explanation", "category"}

ErrFull(cat) ==
  [k \in ErrorKeys |-> IF k = "category" THEN cat
                       ELSE IF k = "original" THEN <<"t","e","h">>
                       ELSE IF k = "correction" THEN <<"t","h","e">>
                       ELSE <<"t","y","p","o">>]

ErrNoCategory == [k \in ErrorKeys \ {"category"} |-> ErrFull(grammar)[k]]
ErrNoOriginal == [k \in ErrorKeys \ {"original"} |-> ErrFull(vocabulary)[k]]

ErrorDicts == {ErrFull(c) : c \in CategoryValues \ {grammar, style, vocabulary}}
              \cup {ErrNoCategory}

RECURSIVE SeqsUpTo(_, _)
SeqsUpTo(S, n) ==
  IF n = 0 THEN {<<>>}
  ELSE LET shorter == SeqsUpTo(S, n - 1)
       IN  shorter \cup {Append(q, x) : q \in {r \in shorter : Len(r) = n - 1}, x \in S}

ErrorLists == SeqsUpTo(ErrorDicts, MaxErrors)

\* ------------------------------------------------------ structured store
\* lib/db.py init_db: the three tables, empty.
EmptyStore == [corrections |-> <<>>, errors |-> <<>>, daily_stats |-> <<>>]

ZeroCounts == [c \in Categories |-> 0]

StatsDates(stats) == {stats[i].date : i \in 1..Len(stats)}
StatsRow(stats, d) == stats[CHOOSE i \in 1..Len(stats) : stats[i].date = d]

\* category = error.get("category", "grammar").lower(); fallback to grammar.
\* A category that is not a str has no lower(): the result is None
\* and the caller raises.
NormalizeCategory_NoLower(error) ==
  LET raw == Get(error, "category", grammar)
  IN  IF raw = None THEN None
      ELSE IF raw \in Categories THEN raw ELSE grammar

NormalizeCategory(error) ==
  LET raw == Get(error, "category", grammar)
  IN  IF raw = None THEN None
      ELSE IF Lower(raw) \in Categories THEN Lower(raw) ELSE grammar

\* INSERT INTO daily_stats ... ON CONFLICT(date) DO UPDATE SET ... + ?
NewRow(d, counts) ==
  [date |-> d, total_corrections |-> 1,
   spelling_count |-> counts[spelling], grammar_count |-> counts[grammar],
   style_count |-> counts[style], vocabulary_count |-> counts[vocabulary]]

AddRow(row, counts) ==
  [date |-> row.date, total_corrections |-> row.total_corrections + 1,
   spelling_count |-> row.spelling_count + counts[spelling],
   grammar_count |-> row.grammar_count + counts[grammar],
   style_count |-> row.style_count + counts[style],
   vocabulary_count |-> row.vocabulary_count + counts[vocabulary]]

Upsert_Replace(stats, d, counts) ==
  IF d \in StatsDates(stats)
  THEN [i \in 1..Len(stats) |-> IF stats[i].date = d THEN NewRow(d, counts) ELSE stats[i]]
  ELSE Append(stats, NewRow(d, counts))

Upsert(stats, d, counts) ==
  IF d \in StatsDates(stats)
  THEN [i \in 1..Len(stats) |-> IF stats[i].date = d THEN AddRow(stats[i], counts) ELSE stats[i]]
  ELSE Append(stats, NewRow(d, counts))

\* What another connection (and any later call) sees of a connection that is
\* dropped without commit(): sqlite3 rolls the open transaction back.
Rollback_Keep(committed, working) == working

Rollback(committed, working) == committed

\* ------------------------------------------------------------------ state
VARIABLES
  today,      \* the calendar date of the system clock
  store,      \* data.sqlite as committed: corrections, errors, daily_stats
  txn,        \* the open sqlite3 connection: its uncommitted view of the tables
  rec,        \* the frame of db.save_correction: arguments, locals, outcome
  pc,         \* position of the running invocation ("idle": none is running)
  mode,       \* which entry point is running: "record", "primary", "drain"
  logDocs,    \* the log directory: for each date, the blocks of its document
  queueFile,  \* retry_queue.json: the entries of the array it holds
  queueKind,  \* retry_queue.json: what load_retry_queue meets (QueueKinds)
  run,        \* locals of the running script (main and process_analysis)
  out,        \* the process: what it wrote to stdout, its exit status
  drain,      \* locals of recall.main: queue, position, counters
  runs,       \* number of script invocations started
  conc        \* overlapping calls of db.save_correction: for each process
              \* its frame, its position and its sqlite3 connection

vars == <<today, store, txn, rec, pc, mode, logDocs, queueFile, queueKind, run, out, drain, runs, conc>>

\* What db.save_correction does not touch.
others == <<logDocs, queueFile, queueKind, run, out, drain, runs, conc>>

TextEnglish == <<"a","b"," ","c"," ","d">>
TextBetter == <<"a","b"," ","c"," ","d","e">>
TextSummary == <<"s","u","m">>

NoRec ==
  [original_text |-> None, user_text |-> None, errors |-> <<>>,
   better_expression |-> None, summary |-> None,
   timestamp |-> 0, correction_id |-> 0, category_counts |-> ZeroCounts,
   i |-> 0, upsert_date |-> 0, pre |-> EmptyStore, result |-> "none",
   failed_at |-> "none"]

DbPcs == {"db_call", "db_errors", "db_upsert", "db_commit"}

\* The analyzer's answer None (Failed), and an answer that parses as JSON
\* but is not an object.
NoAnalysis == [None |-> TRUE]
NotADict == [not_a_dict |-> TRUE]
IsNone(a) == "None" \in DOMAIN a
IsDict(a) == "not_a_dict" \notin DOMAIN a /\ ~IsNone(a)

\* The answers {} and [] (an object without members, an array without
\* elements), and "if analysis:", which takes them as it takes None.
EmptyDict == [empty |-> TRUE]
EmptyList == [not_a_dict |-> TRUE, empty |-> TRUE]
IsFalsy(a) == IsNone(a) \/ "empty" \in DOMAIN a

\* d.get(k) used as a condition, for a bool-valued key
GetFlag(d, k) == k \in DOMAIN d /\ d[k] = TRUE

\* target_date is None
NoDate == -1

NoRun ==
  [user_prompt |-> <<>>, admitted |-> FALSE, analysis |-> NoAnalysis,
   analyzer_calls |-> 0, target_date |-> NoDate, file_date |-> 0,
   primarily_chinese |-> FALSE,
   log_result |-> "none", queue0 |-> <<>>, response |-> <<>>]

\* The counts a line printed by recall.py carries; none, for a line without
\* counts.
NoSummary == [none |-> TRUE]

\* No script has run / a script that has just started.
NoProcess == [stdout |-> <<>>, exited |-> FALSE, status |-> 0, summary |-> NoSummary]

NoDrain ==
  [queue |-> <<>>, idx |-> 0, attempt |-> 0, still_failed |-> <<>>,
   success_count |-> 0, findings_count |-> 0, saved |-> FALSE, calls |-> <<>>]

\* The processes that call save_correction at overlapping times, and a
\* process that is not in a call: no frame, no open transaction.
Procs == {1, 2}

NoConn ==
  [pc |-> "idle", rec |-> NoRec, open |-> FALSE, db |-> EmptyStore,
   committed |-> 0, overlapped |-> FALSE,
   loaded |-> FALSE, queue |-> <<>>, idx |-> 0, still_failed |-> <<>>,
   resolved |-> {}, ended |-> "none"]

Init ==
  /\ today = 0
  /\ store = EmptyStore
  /\ txn = [open |-> FALSE, db |-> EmptyStore]
  /\ rec = NoRec
  /\ pc = "idle"
  /\ mode = "none"
  /\ logDocs = [d \in Days |-> <<>>]
  /\ queueFile = <<>>
  /\ queueKind = "absent"
  /\ run = NoRun
  /\ out = NoProcess
  /\ drain = NoDrain
  /\ runs = 0
  /\ conc = [p \in Procs |-> NoConn]

\* The clock: midnight passes, at any point of any invocation.
Tick ==
  /\ today < MaxDay
  /\ today' = today + 1
  /\ UNCHANGED <<store, txn, rec, pc, mode, others>>

\* The frame of a call save_correction(original_text, user_text, errors,
\* better_expression, summary), before its first statement.
CallFrame(original_text, user_text, errors, better_expression, summary) ==
  [NoRec EXCEPT !.original_text = original_text, !.user_text = user_text,
                !.errors = errors, !.better_expression = better_expression,
                !.summary = summary, !.pre = store]

\* Lines 76-89 of check_grammar.py and 82-96 of recall.py: the two sinks, in
\* the order the code calls them, and where control goes after each.
SinkOrder_StoreFirst == <<"db_call", "log_call">>

SinkOrder == <<"log_call", "db_call">>

NextSink(cur) == IF cur = SinkOrder[1] THEN SinkOrder[2] ELSE "after_record"

\* What the caller keeps of a finished call: the outcome (the returned id or
\* the exception); the arguments and locals die with the frame.
ReturnFrame(result) ==
  [NoRec EXCEPT !.result = result, !.pre = rec.pre,
                !.correction_id = IF result = "returned" THEN rec.correction_id ELSE 0,
                !.failed_at = IF result = "raised" THEN pc ELSE "none"]

\* Where control goes when save_correction returns / raises.
DbReturnTo == IF mode = "record" THEN "idle" ELSE NextSink("db_call")
DbRaiseTo == IF mode = "record" THEN "idle" ELSE "raised"

\* init_db(); connect; timestamp = datetime.now(); INSERT INTO corrections;
\* correction_id = cursor.lastrowid.
RecordInsertCorrection ==
  /\ pc = "db_call"
  /\ LET id == Len(store.corrections) + 1
         row == [id |-> id, timestamp |-> today,
                 original_text |-> rec.original_text, user_text |-> rec.user_text,
                 better_expression |-> rec.better_expression, summary |-> rec.summary]
     IN  /\ txn' = [open |-> TRUE,
                    db |-> [store EXCEPT !.corrections = Append(@, row)]]
         /\ rec' = [rec EXCEPT !.timestamp = today, !.correction_id = id,
                               !.category_counts = ZeroCounts, !.i = 1]
  /\ pc' = IF rec.errors = <<>> THEN "db_upsert" ELSE "db_errors"
  /\ UNCHANGED <<today, store, mode, others>>

\* One iteration of "for error in errors".  A category that is not a str
\* raises AttributeError out of save_correction; the connection is dropped.
RecordInsertError ==
  /\ pc = "db_errors"
  /\ LET error == rec.errors[rec.i]
         category == NormalizeCategory(error)
         row == [correction_id |-> rec.correction_id,
                 original |-> Get(error, "original", <<>>),
                 correction |-> Get(error, "correction", <<>>),
                 explanation |-> Get(error, "explanation", <<>>),
                 category |-> category]
     IN  IF category = None
         THEN /\ txn' = [open |-> FALSE, db |-> Rollback(store, txn.db)]
              /\ store' = Rollback(store, txn.db)
              /\ rec' = ReturnFrame("raised")
              /\ pc' = DbRaiseTo
         ELSE /\ txn' = [txn EXCEPT !.db.errors = Append(@, row)]
              /\ rec' = [rec EXCEPT !.category_counts[category] = @ + 1, !.i = @ + 1]
              /\ pc' = IF rec.i = Len(rec.errors) THEN "db_upsert" ELSE "db_errors"
              /\ UNCHANGED store
  /\ UNCHANGED <<today, mode, others>>

\* today = date.today().isoformat(); the upsert of daily_stats.
RecordUpsert ==
  /\ pc = "db_upsert"
  /\ txn' = [txn EXCEPT !.db.daily_stats = Upsert(@, today, rec.category_counts)]
  /\ rec' = [rec EXCEPT !.upsert_date = today]
  /\ pc' = "db_commit"
  /\ UNCHANGED <<today, store, mode, others>>

\* conn.commit(); conn.close(); return correction_id.
RecordCommit ==
  /\ pc = "db_commit"
  /\ store' = txn.db
  /\ txn' = [open |-> FALSE, db |-> txn.db]
  /\ rec' = ReturnFrame("returned")
  /\ pc' = DbReturnTo
  /\ UNCHANGED <<today, mode, others>>

\* Any statement of save_correction raises (sqlite3.Error, OSError): the
\* exception leaves the function, the connection is dropped uncommitted.
RecordFail ==
  /\ pc \in DbPcs
  /\ store' = Rollback(store, txn.db)
  /\ txn' = [open |-> FALSE, db |-> Rollback(store, txn.db)]
  /\ rec' = ReturnFrame("raised")
  /\ pc' = DbRaiseTo
  /\ UNCHANGED <<today, mode, others>>

\* A caller of the Persistence Layer invokes record with arbitrary arguments.
CallRecord ==
  /\ pc = "idle"
  /\ Len(store.corrections) < MaxCorrections
  /\ \E errors \in ErrorLists :
       /\ Len(store.errors) + Len(errors) <= MaxErrors
       /\ rec' = CallFrame(TextEnglish, TextEnglish, errors, TextBetter, TextSummary)
  /\ pc' = "db_call"
  /\ mode' = "record"
  /\ UNCHANGED <<today, store, txn, others>>

NextRecord ==
  \/ Tick
  \/ CallRecord
  \/ RecordInsertCorrection
  \/ RecordInsertError
  \/ RecordUpsert
  \/ RecordCommit
  \/ RecordFail

SpecRecord == Init /\ [][NextRecord]_vars

\* ------------------------------------------------------------ log writer
\* The lines of one block: heading, displayed text, the error items (only
\* when has_errors and errors are both true), rephrasing, summary, separator.
LogItem(err) ==
  [original |-> err["original"], correction |-> err["correction"],
   explanation |-> Get(err, "explanation", <<>>),
   category |-> Get(err, "category", grammar)]

ListsErrors(analysis) ==
  GetFlag(analysis, "has_errors") /\ Len(Get(analysis, "errors", <<>>)) > 0

\* err['original'] / err['correction'] raise KeyError on a finding without them.
CanFormat(analysis) ==
  ListsErrors(analysis) =>
    \A j \in 1..Len(analysis["errors"]) :
      {"original", "correction"} \subseteq DOMAIN analysis["errors"][j]

FormatBlock(user_message, analysis, timestamp) ==
  [heading |-> timestamp,
   original |-> IF Truthy(Get(analysis, "user_text", None))
                THEN analysis["user_text"] ELSE user_message,
   errors |-> IF ListsErrors(analysis)
              THEN [j \in 1..Len(analysis["errors"]) |-> LogItem(analysis["errors"][j])]
              ELSE <<>>,
   better |-> IF Truthy(Get(analysis, "better_expression", None))
              THEN analysis["better_expression"] ELSE None,
   summary |-> IF Truthy(Get(analysis, "summary", None))
               THEN analysis["summary"] ELSE None,
   separator |-> <<"-","-","-">>]

\* save_to_db(original_text=user_prompt, user_text=analysis.get('user_text',
\* user_prompt), errors=analysis.get('errors', []), ...)
DbCallFrame(user_prompt, analysis) ==
  CallFrame(user_prompt,
            Get(analysis, "user_text", user_prompt),
            Get(analysis, "errors", <<>>),
            Get(analysis, "better_expression", None),
            Get(analysis, "summary", None))

\* The frame of save_correction when control enters sink `step`.
EnterSink(step, user_prompt, analysis) ==
  IF step = "db_call" THEN DbCallFrame(user_prompt, analysis) ELSE rec

\* Where control goes when the log writer returns / raises.
LogReturnTo == IF mode = "log" THEN "idle" ELSE NextSink("log_call")
LogRaiseTo == IF mode = "log" THEN "idle" ELSE "raised"

\* with open(file_path, 'a') as f: f.write(...)
AppendBlock_Truncate(doc, block) == <<block>>

AppendBlock(doc, block) == Append(doc, block)

\* What a write that fails part-way leaves in the file: the beginning of the
\* block, without its separator.
Partial(block) == [block EXCEPT !.separator = <<>>]

\* file_path = get_daily_file_path(target_date): the date is read, unless
\* one was given, and the directory created; mkdir is outside any try and
\* its OSError propagates.
LogResolve ==
  /\ pc = "log_call"
  /\ \E mkdir_ok \in BOOLEAN :
       IF mkdir_ok
       THEN /\ run' = [run EXCEPT !.file_date = IF run.target_date = NoDate
                                                THEN today ELSE run.target_date]
            /\ pc' = "log_write"
       ELSE /\ run' = [run EXCEPT !.log_result = "raised_oserror"]
            /\ pc' = LogRaiseTo
  /\ UNCHANGED <<today, store, txn, rec, mode, logDocs, queueFile, queueKind, out, drain, runs, conc>>

\* timestamp = datetime.now(); the lines are built (KeyError propagates);
\* the block is appended inside try/except: True, or False on any exception
\* (nothing written, or the beginning of the block).
\* The caller ignores the result and goes on.
LogAppend ==
  /\ pc = "log_write"
  /\ IF ~CanFormat(run.analysis)
     THEN /\ run' = [run EXCEPT !.log_result = "raised_keyerror"]
          /\ pc' = LogRaiseTo
          /\ UNCHANGED <<logDocs, rec>>
     ELSE \E written \in {"all", "part", "nothing"} :
            LET block == FormatBlock(run.user_prompt, run.analysis, today)
            IN  /\ logDocs' = IF written = "all"
                                THEN [logDocs EXCEPT ![run.file_date] = AppendBlock(@, block)]
                              ELSE IF written = "part"
                                THEN [logDocs EXCEPT ![run.file_date] =
                                        AppendBlock(@, Partial(block))]
                              ELSE logDocs
                /\ run' = [run EXCEPT !.log_result = IF written = "all" THEN "true"
                                                      ELSE "false"]
                /\ pc' = LogReturnTo
                /\ rec' = EnterSink(LogReturnTo, run.user_prompt, run.analysis)
  /\ UNCHANGED <<today, store, txn, mode, queueFile, queueKind, out, drain, runs, conc>>

\* A caller of the Log Writer invokes append (obsidian.save_correction) with
\* a text, an analysis and today's date or an explicit one.
LogAnalyses ==
  {[has_errors |-> TRUE, errors |-> <<ErrFull(spelling)>>, user_text |-> TextEnglish,
    better_expression |-> TextBetter, summary |-> TextSummary],
   [has_errors |-> FALSE, errors |-> <<>>, better_expression |-> TextBetter],
   [has_errors |-> TRUE, errors |-> <<ErrNoOriginal>>]}

RECURSIVE BlocksUpTo(_)
BlocksUpTo(d) == IF d < 0 THEN 0 ELSE Len(logDocs[d]) + BlocksUpTo(d - 1)

CallAppend ==
  /\ pc = "idle"
  /\ mode \in {"none", "log"}
  /\ BlocksUpTo(MaxDay) < MaxCorrections
  /\ \E analysis \in LogAnalyses, target_date \in {NoDate} \cup (0..MaxDay) :
       run' = [NoRun EXCEPT !.user_prompt = TextEnglish, !.analysis = analysis,
                            !.target_date = target_date]
  /\ pc' = "log_call"
  /\ mode' = "log"
  /\ UNCHANGED <<today, store, txn, rec, logDocs, queueFile, queueKind, out, drain, runs, conc>>

NextLog ==
  \/ Tick
  \/ CallAppend
  \/ LogResolve
  \/ LogAppend

SpecLog == Init /\ [][NextLog]_vars

\* ------------------------------------------- check_grammar.py: the hook
MaxRuns == 1

TextShort == <<"a","b"," ","c">>
TextSlash == <<"/","a","b"," ","c"," ","d">>
TextChinese == <<"U+4E2D","U+6587"," ","a","b"," ","c">>
Texts == {TextEnglish, TextShort, TextSlash, TextChinese, <<>>}

\* What json.load(sys.stdin) meets: text that is not JSON, JSON that is not
\* an object, and the hook's object with or without the prompt keys.
SessionId == <<"s","1">>
Stdins ==
  {[kind |-> "garbage", session_id |-> SessionId],
   [kind |-> "array", session_id |-> SessionId],
   [kind |-> "object", session_id |-> SessionId],
   [kind |-> "object", session_id |-> SessionId, user_prompt |-> TextEnglish],
   [kind |-> "object", session_id |-> SessionId, prompt |-> <<>>, user_prompt |-> TextEnglish]}
  \cup {[kind |-> "object", session_id |-> SessionId, prompt |-> t] : t \in Texts}

\* a or b
PyOr(a, b) == IF Truthy(a) THEN a ELSE b

\* What analyze_grammar returns: None, a JSON value that is not an object,
\* or the object the prompt asks for, whole or with keys missing; the
\* better_expression is null, a text or the empty text.
Analysis(skipped, has_errors, errors, better_expression) ==
  [skipped |-> skipped, has_errors |-> has_errors, user_text |-> TextEnglish,
   errors |-> errors, better_expression |-> better_expression,
   summary |-> TextSummary]

AnalyzerErrorLists ==
  {<<>>, <<ErrFull(spelling)>>, <<ErrFull(<<"S","t","y","l","e">>), ErrNoCategory>>,
   <<ErrNoOriginal>>, <<ErrFull(None)>>}

AnalyzerResults ==
  {NoAnalysis, NotADict, EmptyDict, EmptyList, [has_errors |-> TRUE]}
  \cup {Analysis(sk, he, errs, be) :
          sk \in BOOLEAN, he \in BOOLEAN, errs \in AnalyzerErrorLists,
          be \in {None, TextBetter}}
  \cup {Analysis(FALSE, FALSE, <<>>, <<>>)}

\* if analysis.get('skipped')
IsSkipped_Ignored(analysis) == FALSE

IsSkipped(analysis) == GetFlag(analysis, "skipped")

\* analysis.get('has_errors') or analysis.get('better_expression')
ToRecord_NonNull(analysis) ==
  GetFlag(analysis, "has_errors") \/ Get(analysis, "better_expression", None) # None

ToRecord(analysis) ==
  GetFlag(analysis, "has_errors") \/ Truthy(Get(analysis, "better_expression", None))

\* print(json.dumps({}), file=sys.stdout)
PrintEmpty(o) == [o EXCEPT !.stdout = Append(@, "{}")]

\* finally: sys.exit(0)
Exit0(o) == [o EXCEPT !.exited = TRUE, !.status = 0]

\* except Exception: the diagnostic goes to stderr, {} to stdout.
ExceptHandler_Silent(o) == o

ExceptHandler(o) == PrintEmpty(o)

\* Lines 63-68: where control goes after should_check_grammar(user_prompt).
AfterFilter_Always(admitted) == "analyze"

AfterFilter(admitted) == IF admitted THEN "analyze" ELSE "idle"

\* json.load(sys.stdin); the prompt; the Admission Filter (lines 56-65).
PrimaryStart ==
  /\ pc = "idle"
  /\ runs < MaxRuns
  /\ Len(store.corrections) < MaxCorrections
  /\ \E stdin \in Stdins :
       LET user_prompt == PyOr(Get(stdin, "prompt", <<>>), Get(stdin, "user_prompt", <<>>))
           started == NoProcess
       IN  IF stdin.kind # "object"
           THEN /\ run' = [NoRun EXCEPT !.queue0 = queueFile]
                /\ out' = started
                /\ pc' = "raised"
           ELSE /\ run' = [NoRun EXCEPT !.user_prompt = user_prompt, !.queue0 = queueFile,
                                        !.admitted = should_check_grammar(user_prompt)]
                /\ pc' = AfterFilter(should_check_grammar(user_prompt))
                /\ out' = IF AfterFilter(should_check_grammar(user_prompt)) = "idle"
                          THEN Exit0(PrintEmpty(started)) ELSE started
  /\ mode' = "primary"
  /\ runs' = runs + 1
  /\ rec' = NoRec
  /\ UNCHANGED <<today, store, txn, logDocs, queueFile, queueKind, drain, conc>>

\* analysis = analyze_grammar(user_prompt) and the branches of lines 70-77.
PrimaryAnalyze ==
  /\ pc = "analyze"
  /\ mode = "primary"
  /\ \E a \in AnalyzerResults :
       /\ run' = [run EXCEPT !.analysis = a, !.analyzer_calls = @ + 1]
       /\ IF IsFalsy(a) THEN out' = Exit0(PrintEmpty(out)) /\ pc' = "idle" /\ UNCHANGED rec
          ELSE IF ~IsDict(a) THEN pc' = "raised" /\ UNCHANGED <<out, rec>>
          ELSE IF IsSkipped(a)
            THEN out' = Exit0(PrintEmpty(out)) /\ pc' = "idle" /\ UNCHANGED rec
          ELSE IF ToRecord(a)
            THEN /\ pc' = SinkOrder[1]
                 /\ rec' = EnterSink(SinkOrder[1], run.user_prompt, a)
                 /\ UNCHANGED out
          ELSE out' = Exit0(PrintEmpty(out)) /\ pc' = "idle" /\ UNCHANGED rec
  /\ UNCHANGED <<today, store, txn, mode, logDocs, queueFile, queueKind, drain, runs, conc>>

\* Lines 91-106: the notification text is built from the first two findings
\* (err['original'] raises KeyError), send_notification swallows its own
\* failures, and the hook response is printed.
PrimaryNotify ==
  /\ pc = "after_record"
  /\ mode = "primary"
  /\ LET errors == Get(run.analysis, "errors", <<>>)
         shown == SubSeq(errors, 1, IF Len(errors) < 2 THEN Len(errors) ELSE 2)
     IN  IF \E j \in 1..Len(shown) : ~({"original", "correction"} \subseteq DOMAIN shown[j])
         THEN pc' = "raised" /\ UNCHANGED out
         ELSE out' = Exit0(PrintEmpty(out)) /\ pc' = "idle"
  /\ UNCHANGED <<today, store, txn, rec, mode, logDocs, queueFile, queueKind, run, drain, runs, conc>>

\* Lines 108-114: except Exception, then finally sys.exit(0).
PrimaryExcept ==
  /\ pc = "raised"
  /\ mode = "primary"
  /\ out' = Exit0(ExceptHandler(out))
  /\ pc' = "idle"
  /\ UNCHANGED <<today, store, txn, rec, mode, logDocs, queueFile, queueKind, run, drain, runs, conc>>

Next ==
  \/ Tick
  \/ PrimaryStart
  \/ PrimaryAnalyze
  \/ LogResolve
  \/ LogAppend
  \/ RecordInsertCorrection
  \/ RecordInsertError
  \/ RecordUpsert
  \/ RecordCommit
  \/ RecordFail
  \/ PrimaryNotify
  \/ PrimaryExcept

Spec == Init /\ [][Next]_vars

\* -------------------------------------------- recall.py: the retry drain
MaxQueue == 2

\* The entries of retry_queue.json: {prompt, timestamp} objects with a text
\* the filter admits (queued on two different days), with one it rejects,
\* and without a prompt; and an array element that is not an object.
QueueEntries ==
  {[prompt |-> TextEnglish, timestamp |-> 0], [prompt |-> TextEnglish, timestamp |-> 1],
   [prompt |-> TextShort, timestamp |-> 0], [timestamp |-> 0], NotADict}

\* What load_retry_queue can meet (lines 60-66): no file; a file holding a
\* JSON array; text that is not JSON; a file open() cannot read; bytes the
\* text codec cannot decode; a JSON object (non-empty) and a JSON number
\* (non-zero) in place of the array.
QueueKinds ==
  {"absent", "array", "not_json", "unreadable", "undecodable", "object", "number"}

\* load_retry_queue returns [] for these: the path does not exist, or
\* json.load raised json.JSONDecodeError or IOError.
LoadsAsEmpty(kind) == kind \in {"absent", "not_json", "unreadable"}

Queues == SeqsUpTo(QueueEntries, MaxQueue)

\* The answers of analyze_grammar a drain run is checked against: Failed, not
\* an object, Skipped, Clean, Findings, a rephrasing only, an empty
\* rephrasing, and findings the log formatter or the store cannot take.
DrainAnalyzerResults ==
  {NoAnalysis, NotADict, EmptyDict, EmptyList,
   Analysis(TRUE, TRUE, <<ErrFull(spelling)>>, TextBetter),
   Analysis(FALSE, FALSE, <<>>, None),
   Analysis(FALSE, TRUE, <<ErrFull(spelling)>>, None),
   Analysis(FALSE, FALSE, <<>>, TextBetter),
   Analysis(FALSE, FALSE, <<>>, <<>>),
   Analysis(FALSE, TRUE, <<ErrNoOriginal>>, None),
   Analysis(FALSE, TRUE, <<ErrFull(None)>>, None)}

\* process_analysis(user_prompt, analysis) up to its first call of a sink:
\* True when it goes on to the sinks, False when it returns False at once
\* (lines 78-83 and 97).
process_analysis_ErrorsOnly(analysis) ==
  ~IsSkipped(analysis) /\ GetFlag(analysis, "has_errors")

process_analysis(analysis) == ~IsSkipped(analysis) /\ ToRecord(analysis)

\* still_failed.append(item)
KeepFailed_Front(still_failed, item) == <<item>> \o still_failed

KeepFailed(still_failed, item) == Append(still_failed, item)

AttemptsLeft_Three(attempt) == attempt + 1 < 3

\* for attempt in range(2): another attempt follows this one.
AttemptsLeft(attempt) == attempt + 1 < 2

AfterItem_SaveEach(idx) == "drain_save"

\* Control after the body of "for item in queue" for the item at idx.
AfterItem(idx) == IF idx >= Len(drain.queue) THEN "drain_save" ELSE "drain_item"

\* The first statements of recall.main: queue = load_retry_queue(); the
\* empty queue returns at once (lines 102-107).
DrainLoad ==
  /\ rec' = NoRec
  /\ run' = [NoRun EXCEPT !.queue0 = queueFile]
  /\ IF queueKind \in {"undecodable", "object", "number"}
     THEN \* UnicodeDecodeError leaves load_retry_queue (it is a ValueError,
          \* neither JSONDecodeError nor IOError); len(queue) of a number is
          \* a TypeError (line 109); the items of an object are its keys, and
          \* a str has no get (line 116).
          /\ drain' = NoDrain
          /\ out' = IF queueKind = "object"
                       THEN [NoProcess EXCEPT !.stdout = <<"Found failed check(s) to retry...">>]
                       ELSE NoProcess
          /\ pc' = "raised"
     ELSE IF LoadsAsEmpty(queueKind) \/ queueFile = <<>>
     THEN /\ drain' = NoDrain
          /\ out' = Exit0([NoProcess EXCEPT !.stdout = <<"No failed checks in retry queue.">>])
          /\ pc' = "idle"
     ELSE /\ drain' = [NoDrain EXCEPT !.queue = queueFile, !.idx = 1,
                                      !.calls = [i \in 1..Len(queueFile) |-> <<>>]]
          /\ out' = [NoProcess EXCEPT !.stdout = <<"Found failed check(s) to retry...">>]
          /\ pc' = "drain_item"
  /\ UNCHANGED <<today, store, txn, logDocs, queueFile, queueKind, conc>>

\* recall.py is started, for the first time.
DrainStart ==
  /\ pc = "idle"
  /\ mode # "drain"
  /\ mode' = "drain"
  /\ runs' = runs + 1
  /\ DrainLoad

\* Lines 116-126: the prompt of the item, the Admission Filter.
DrainItem ==
  /\ pc = "drain_item"
  /\ LET item == drain.queue[drain.idx]
         user_prompt == Get(item, "prompt", <<>>)
     IN  IF ~IsDict(item)
         THEN \* item.get of a str, a number or a list: AttributeError
              /\ pc' = "raised"
              /\ UNCHANGED <<drain, run>>
         ELSE IF ~Truthy(user_prompt)
         THEN /\ drain' = [drain EXCEPT !.idx = @ + 1]
              /\ pc' = AfterItem(drain.idx)
              /\ UNCHANGED run
         ELSE IF ~should_check_grammar(user_prompt)
         THEN /\ drain' = [drain EXCEPT !.idx = @ + 1, !.success_count = @ + 1]
              /\ pc' = AfterItem(drain.idx)
              /\ UNCHANGED run
         ELSE /\ drain' = [drain EXCEPT !.attempt = 0]
              /\ run' = [NoRun EXCEPT !.user_prompt = user_prompt, !.admitted = TRUE,
                                      !.queue0 = run.queue0,
                                      !.analyzer_calls = run.analyzer_calls]
              /\ pc' = "analyze"
  /\ UNCHANGED <<today, store, txn, rec, mode, logDocs, queueFile, queueKind, out, runs, conc>>

\* Lines 129-145 and process_analysis: one call of analyze_grammar in
\* "for attempt in range(2)", and what follows when the loop is left.
DrainAnalyze ==
  /\ pc = "analyze"
  /\ mode = "drain"
  /\ \E a \in DrainAnalyzerResults :
       LET called == [drain EXCEPT !.calls[drain.idx] = Append(@, IsNone(a))]
           resolved == [called EXCEPT !.idx = @ + 1, !.success_count = @ + 1]
       IN  /\ run' = [run EXCEPT !.analysis = a, !.analyzer_calls = @ + 1,
                                 !.log_result = "none"]
           /\ IF IsNone(a) /\ AttemptsLeft(drain.attempt)
                THEN /\ drain' = [called EXCEPT !.attempt = @ + 1]
                     /\ pc' = "analyze"
                     /\ UNCHANGED rec
              ELSE IF IsNone(a)
                THEN /\ drain' = [called EXCEPT
                                    !.still_failed = KeepFailed(@, drain.queue[drain.idx]),
                                    !.idx = @ + 1]
                     /\ pc' = AfterItem(drain.idx)
                     /\ UNCHANGED rec
              ELSE IF ~IsDict(a)
                THEN drain' = called /\ pc' = "raised" /\ UNCHANGED rec
              ELSE IF ~process_analysis(a)
                THEN drain' = resolved /\ pc' = AfterItem(drain.idx) /\ UNCHANGED rec
              ELSE /\ drain' = called
                   /\ pc' = SinkOrder[1]
                   /\ rec' = EnterSink(SinkOrder[1], run.user_prompt, a)
  /\ UNCHANGED <<today, store, txn, mode, logDocs, queueFile, queueKind, out, runs, conc>>

\* process_analysis returns True: lines 144-148.  The id save_to_db returned
\* was never bound to a name, so nothing of the call outlives the item.
DrainAfterRecord ==
  /\ pc = "after_record"
  /\ mode = "drain"
  /\ drain' = [drain EXCEPT !.idx = @ + 1, !.success_count = @ + 1,
                            !.findings_count = @ + 1]
  /\ rec' = NoRec
  /\ pc' = AfterItem(drain.idx)
  /\ UNCHANGED <<today, store, txn, mode, logDocs, queueFile, queueKind, run, out, runs, conc>>

\* Lines 155-163: the message of the summary, as the counts it names.
SummaryMessage(queue, success_count, still_failed, findings_count) ==
  IF still_failed # <<>>
  THEN [retried |-> Len(queue), ok |-> success_count, still_failed |-> Len(still_failed)]
  ELSE IF findings_count > 0
  THEN [ok |-> success_count, with_findings |-> findings_count]
  ELSE [ok |-> success_count]

\* save_retry_queue(still_failed), whose OSError propagates; the summary.
\* open(path, 'w') empties the file before json.dump writes: a write that
\* fails after the open leaves a file that is not JSON.
DrainSave ==
  /\ pc = "drain_save"
  /\ \E written \in {"all", "part", "nothing"} :
       IF written = "all"
       THEN /\ queueFile' = drain.still_failed
            /\ queueKind' = "array"
            /\ drain' = [drain EXCEPT !.saved = TRUE]
            /\ out' = Exit0([out EXCEPT
                               !.stdout = Append(@, "Done"),
                               !.summary = SummaryMessage(drain.queue, drain.success_count,
                                                          drain.still_failed,
                                                          drain.findings_count)])
            /\ pc' = "idle"
       ELSE IF written = "part"
       THEN /\ queueFile' = <<>>
            /\ queueKind' = "not_json"
            /\ pc' = "raised"
            /\ UNCHANGED <<drain, out>>
       ELSE /\ pc' = "raised"
            /\ UNCHANGED <<queueFile, queueKind, drain, out>>
  /\ UNCHANGED <<today, store, txn, rec, mode, logDocs, run, runs, conc>>

\* An exception leaves main: recall.py has no handler, the interpreter
\* prints the traceback and exits with status 1.
DrainAbort ==
  /\ pc = "raised"
  /\ mode = "drain"
  /\ out' = [out EXCEPT !.exited = TRUE, !.status = 1]
  /\ pc' = "idle"
  /\ UNCHANGED <<today, store, txn, rec, mode, logDocs, queueFile, queueKind, run, drain, runs, conc>>

\* The queue file a drain run finds.
InitDrain ==
  /\ today = 0
  /\ store = EmptyStore
  /\ txn = [open |-> FALSE, db |-> EmptyStore]
  /\ rec = NoRec
  /\ pc = "idle"
  /\ mode = "none"
  /\ logDocs = [d \in Days |-> <<>>]
  /\ \/ queueKind = "array" /\ queueFile \in Queues
     \/ queueKind \in QueueKinds \ {"array"} /\ queueFile = <<>>
  /\ run = NoRun
  /\ out = NoProcess
  /\ drain = NoDrain
  /\ runs = 0
  /\ conc = [p \in Procs |-> NoConn]

\* The date does not change during a drain run (what a change of date does
\* to a record is the subject of SpecRecord).
NextDrain ==
  \/ DrainStart
  \/ DrainItem
  \/ DrainAnalyze
  \/ LogResolve
  \/ LogAppend
  \/ RecordInsertCorrection
  \/ RecordInsertError
  \/ RecordUpsert
  \/ RecordCommit
  \/ RecordFail
  \/ DrainAfterRecord
  \/ DrainSave
  \/ DrainAbort

SpecDrain == InitDrain /\ [][NextDrain]_vars

\* --------------------------------------- recall.py, run again and again
\* recall.py is started again after a run has ended.  The runs are counted
\* up to MaxRuns, and a run is started only while the store and the day's
\* document have room for what it can write.
DrainAgain ==
  /\ pc = "idle"
  /\ mode = "drain"
  /\ Len(store.corrections) + Len(queueFile) <= MaxCorrections
  /\ Len(logDocs[today]) + Len(queueFile) <= MaxCorrections
  /\ mode' = "drain"
  /\ runs' = IF runs < MaxRuns THEN runs + 1 ELSE runs
  /\ DrainLoad

\* The steps of a run that has started.
DrainStep ==
  \/ DrainItem
  \/ DrainAnalyze
  \/ LogResolve
  \/ LogAppend
  \/ RecordInsertCorrection
  \/ RecordInsertError
  \/ RecordUpsert
  \/ RecordCommit
  \/ RecordFail
  \/ DrainAfterRecord
  \/ DrainSave
  \/ DrainAbort

NextRepeat ==
  \/ DrainStart
  \/ DrainAgain
  \/ DrainStep

\* A started run is a process that keeps executing: its next statement is
\* eventually executed.  Nothing obliges anyone to start a run.
SpecRepeat == InitDrain /\ [][NextRepeat]_vars /\ WF_vars(DrainStep)

\* ----------------------------- the hook and the drain on the same store
\* A queue file with one entry, whose text the filter admits; recall.py is
\* run on it, and the hook is invoked with the same text or another.
InitPaths ==
  /\ today = 0
  /\ store = EmptyStore
  /\ txn = [open |-> FALSE, db |-> EmptyStore]
  /\ rec = NoRec
  /\ pc = "idle"
  /\ mode = "none"
  /\ logDocs = [d \in Days |-> <<>>]
  /\ queueKind = "array"
  /\ queueFile = <<[prompt |-> TextEnglish, timestamp |-> 0]>>
  /\ run = NoRun
  /\ out = NoProcess
  /\ drain = NoDrain
  /\ runs = 0
  /\ conc = [p \in Procs |-> NoConn]

NextPaths ==
  \/ PrimaryStart
  \/ PrimaryAnalyze
  \/ PrimaryNotify
  \/ PrimaryExcept
  \/ DrainStart
  \/ DrainItem
  \/ DrainAnalyze
  \/ DrainAfterRecord
  \/ DrainSave
  \/ DrainAbort
  \/ LogResolve
  \/ LogAppend
  \/ RecordInsertCorrection
  \/ RecordInsertError
  \/ RecordUpsert
  \/ RecordCommit
  \/ RecordFail

SpecPaths == InitPaths /\ [][NextPaths]_vars

\* ------------------------------------------- one invocation, to its end
\* One invocation, of the hook or of recall.py, on any queue file.
NextTerm ==
  \/ mode = "none" /\ PrimaryStart
  \/ mode = "none" /\ DrainStart
  \/ PrimaryAnalyze
  \/ PrimaryNotify
  \/ PrimaryExcept
  \/ DrainStep

\* The steps of an invocation that has started.
TermStep ==
  \/ PrimaryAnalyze
  \/ PrimaryNotify
  \/ PrimaryExcept
  \/ DrainStep

\* A started invocation is a process that keeps executing, and every call
\* it makes returns or raises: its next statement is eventually executed.
SpecTerm == InitDrain /\ [][NextTerm]_vars /\ WF_vars(TermStep)

\* ------------------------- db.py: two overlapping calls of save_correction
\* What a call of save_correction does not touch when it runs in one of the
\* processes of Procs.
single == <<today, txn, rec, pc, mode, logDocs, queueFile, queueKind, run, out, drain, runs>>

\* sqlite3 in its default (deferred, rollback-journal) mode: the first
\* INSERT of a connection begins a transaction and takes the write lock of
\* the database file, which it holds until commit or until the connection
\* is dropped; no other connection can write meanwhile.
WriteLockFree_Always(p) == TRUE

WriteLockFree(p) == \A q \in Procs \ {p} : ~conc[q].open

\* The calls in progress.
InCall == {q \in Procs : conc[q].pc \in DbPcs}

\* A process calls save_correction, possibly while the other is in a call.
OverlapCall(p) ==
  /\ conc[p].pc = "idle"
  /\ Len(store.corrections) + Cardinality(InCall) < MaxCorrections
  /\ \E errors \in AnalyzerErrorLists :
       conc' = [q \in Procs |->
                  IF q = p
                  THEN [conc[p] EXCEPT
                          !.pc = "db_call",
                          !.rec = CallFrame(TextEnglish, TextEnglish, errors,
                                            TextBetter, TextSummary),
                          !.overlapped = InCall # {}]
                  ELSE [conc[q] EXCEPT !.overlapped = @ \/ q \in InCall]]
  /\ UNCHANGED <<store, single>>

\* The call raises: the connection is dropped, its transaction rolled back.
Raised(p, at) ==
  [conc[p] EXCEPT !.pc = "idle", !.open = FALSE, !.db = EmptyStore,
                  !.rec = [NoRec EXCEPT !.result = "raised", !.failed_at = at]]

\* init_db(); connect; timestamp; INSERT INTO corrections.  While another
\* connection holds the write lock the statement waits (the step is not
\* taken) or, after the busy timeout, raises "database is locked".
OverlapInsertCorrection(p) ==
  /\ conc[p].pc = "db_call"
  /\ IF WriteLockFree(p)
     THEN LET r == conc[p].rec
              id == Len(store.corrections) + 1
              row == [id |-> id, timestamp |-> today,
                      original_text |-> r.original_text, user_text |-> r.user_text,
                      better_expression |-> r.better_expression, summary |-> r.summary]
          IN  conc' = [conc EXCEPT
                         ![p].open = TRUE,
                         ![p].db = [store EXCEPT !.corrections = Append(@, row)],
                         ![p].rec = [r EXCEPT !.timestamp = today, !.correction_id = id,
                                              !.category_counts = ZeroCounts, !.i = 1],
                         ![p].pc = IF r.errors = <<>> THEN "db_upsert" ELSE "db_errors"]
     ELSE conc' = [conc EXCEPT ![p] = Raised(p, "db_call")]
  /\ UNCHANGED <<store, single>>

\* One iteration of "for error in errors".
OverlapInsertError(p) ==
  /\ conc[p].pc = "db_errors"
  /\ LET r == conc[p].rec
         error == r.errors[r.i]
         category == NormalizeCategory(error)
         row == [correction_id |-> r.correction_id,
                 original |-> Get(error, "original", <<>>),
                 correction |-> Get(error, "correction", <<>>),
                 explanation |-> Get(error, "explanation", <<>>),
                 category |-> category]
     IN  IF category = None
         THEN conc' = [conc EXCEPT ![p] = Raised(p, "db_errors")]
         ELSE conc' = [conc EXCEPT
                         ![p].db.errors = Append(@, row),
                         ![p].rec = [r EXCEPT !.category_counts[category] = @ + 1,
                                              !.i = @ + 1],
                         ![p].pc = IF r.i = Len(r.errors) THEN "db_upsert" ELSE "db_errors"]
  /\ UNCHANGED <<store, single>>

\* today = date.today().isoformat(); the upsert of daily_stats.
OverlapUpsert(p) ==
  /\ conc[p].pc = "db_upsert"
  /\ conc' = [conc EXCEPT
                ![p].db.daily_stats = Upsert(@, today, conc[p].rec.category_counts),
                ![p].rec.upsert_date = today,
                ![p].pc = "db_commit"]
  /\ UNCHANGED <<store, single>>

\* conn.commit(); conn.close(); return correction_id.
OverlapCommit(p) ==
  /\ conc[p].pc = "db_commit"
  /\ store' = conc[p].db
  /\ conc' = [conc EXCEPT
                ![p].pc = "idle", ![p].open = FALSE, ![p].db = EmptyStore,
                ![p].committed = @ + 1,
                ![p].rec = [conc[p].rec EXCEPT !.result = "returned"]]
  /\ UNCHANGED single

\* Any statement of the call raises (sqlite3.Error, OSError).
OverlapFail(p) ==
  /\ conc[p].pc \in DbPcs
  /\ conc' = [conc EXCEPT ![p] = Raised(p, conc[p].pc)]
  /\ UNCHANGED <<store, single>>

NextOverlap ==
  \/ Tick
  \/ \E p \in Procs : OverlapCall(p)
  \/ \E p \in Procs : OverlapInsertCorrection(p)
  \/ \E p \in Procs : OverlapInsertError(p)
  \/ \E p \in Procs : OverlapUpsert(p)
  \/ \E p \in Procs : OverlapCommit(p)
  \/ \E p \in Procs : OverlapFail(p)

SpecOverlap == Init /\ [][NextOverlap]_vars

\* ------------------------------------ recall.py, two runs at the same time
\* Two runs of recall.py on the same queue file.  Of each run, the steps
\* that read and write the queue file and what the run decides for each
\* entry; what processing an entry does to the store and the log is the
\* subject of SpecDrain.
RaceEntries ==
  {[prompt |-> TextEnglish, timestamp |-> 0], [prompt |-> TextEnglish, timestamp |-> 1],
   [prompt |-> TextShort, timestamp |-> 0], [timestamp |-> 1]}

\* Queue files whose entries differ from one another.
RaceQueues(n) ==
  {q \in SeqsUpTo(RaceEntries, n) :
     q # <<>> /\ \A i, j \in 1..Len(q) : i # j => q[i] # q[j]}

\* The number of characters json.dump(queue, f, indent=2) writes.
MemberSize(item, key) ==
  IF key \notin DOMAIN item THEN 0
  ELSE IF key = "prompt" THEN 4 + 8 + 2 + Len(item.prompt) + 2
  ELSE 4 + 11 + 2 + 1

EntrySize(item) ==
  4 + MemberSize(item, "prompt") + MemberSize(item, "timestamp")
    + 2 * (Cardinality(DOMAIN item) - 1) + 4

RECURSIVE EntriesSize(_)
EntriesSize(queue) ==
  IF queue = <<>> THEN 0 ELSE EntrySize(Head(queue)) + EntriesSize(Tail(queue))

JsonSize(queue) ==
  IF queue = <<>> THEN 2
  ELSE 2 + EntriesSize(queue) + 2 * (Len(queue) - 1) + 2

\* What the file holds after a process that opened it with 'w' writes
\* queue from the beginning of the file: queue, unless a longer text was
\* written since the open, whose end then follows the text of queue.
KeepsTail_Never(queue) == FALSE

KeepsTail(queue) == queueKind = "array" /\ JsonSize(queueFile) > JsonSize(queue)

\* queue = load_retry_queue() and lines 104-109.
RaceLoad(p) ==
  /\ conc[p].pc = "idle"
  /\ ~conc[p].loaded
  /\ LET queue == IF queueKind = "array" THEN queueFile ELSE <<>>
     IN  conc' = [conc EXCEPT
                    ![p].loaded = TRUE,
                    ![p].queue = queue,
                    ![p].idx = IF queue = <<>> THEN 0 ELSE 1,
                    ![p].pc = IF queue = <<>> THEN "idle" ELSE "drain_item",
                    ![p].ended = IF queue = <<>> THEN "nothing" ELSE "none"]
  /\ mode' = "race"
  /\ UNCHANGED <<today, store, txn, rec, pc, logDocs, queueFile, queueKind, run, out, drain, runs>>

\* One iteration of "for item in queue" (lines 115-150): the entry has no
\* text; the filter rejects it; analyze_grammar returns None twice; it
\* returns something else and the entry is processed, or processing raises.
RaceItem(p) ==
  /\ conc[p].pc = "drain_item"
  /\ LET i == conc[p].idx
         user_prompt == Get(conc[p].queue[i], "prompt", <<>>)
         after == IF i >= Len(conc[p].queue) THEN "drain_save" ELSE "drain_item"
     IN  IF ~Truthy(user_prompt) \/ ~should_check_grammar(user_prompt)
         THEN conc' = [conc EXCEPT ![p].idx = i + 1, ![p].pc = after]
         ELSE \E outcome \in {"failed", "processed", "raised"} :
                conc' = [conc EXCEPT
                           ![p].idx = IF outcome = "raised" THEN i ELSE i + 1,
                           ![p].still_failed = IF outcome = "failed"
                                               THEN KeepFailed(@, conc[p].queue[i])
                                               ELSE @,
                           ![p].resolved = IF outcome = "failed" THEN @ ELSE @ \cup {i},
                           ![p].pc = IF outcome = "raised" THEN "idle" ELSE after,
                           ![p].ended = IF outcome = "raised" THEN "aborted" ELSE @]
  /\ UNCHANGED <<today, store, txn, rec, pc, mode, logDocs, queueFile, queueKind, run, out, drain, runs>>

\* save_retry_queue, line 72: open(RETRY_QUEUE_PATH, 'w') empties the file.
RaceOpen(p) ==
  /\ conc[p].pc = "drain_save"
  /\ queueFile' = <<>>
  /\ queueKind' = "not_json"
  /\ conc' = [conc EXCEPT ![p].pc = "drain_write"]
  /\ UNCHANGED <<today, store, txn, rec, pc, mode, logDocs, run, out, drain, runs>>

\* save_retry_queue, line 73: the text of still_failed is written from the
\* beginning of the file, and the file is closed.
RaceWrite(p) ==
  /\ conc[p].pc = "drain_write"
  /\ IF KeepsTail(conc[p].still_failed)
     THEN queueFile' = <<>> /\ queueKind' = "not_json"
     ELSE queueFile' = conc[p].still_failed /\ queueKind' = "array"
  /\ conc' = [conc EXCEPT ![p].pc = "idle", ![p].ended = "saved"]
  /\ UNCHANGED <<today, store, txn, rec, pc, mode, logDocs, run, out, drain, runs>>

InitRace ==
  /\ today = 0
  /\ store = EmptyStore
  /\ txn = [open |-> FALSE, db |-> EmptyStore]
  /\ rec = NoRec
  /\ pc = "idle"
  /\ mode = "none"
  /\ logDocs = [d \in Days |-> <<>>]
  /\ queueKind = "array"
  /\ queueFile \in RaceQueues(MaxQueue)
  /\ run = NoRun
  /\ out = NoProcess
  /\ drain = NoDrain
  /\ runs = 0
  /\ conc = [p \in Procs |-> NoConn]

NextRace ==
  \/ \E p \in Procs : RaceLoad(p)
  \/ \E p \in Procs : RaceItem(p)
  \/ \E p \in Procs : RaceOpen(p)
  \/ \E p \in Procs : RaceWrite(p)

SpecRace == InitRace /\ [][NextRace]_vars

\* ------------------------------ language_detect.py: the filter on its own
MaxPieces == 6

\* The texts the filter is applied to: every concatenation of at most
\* MaxPieces of these pieces (a blank, two Latin letters of either case, one
\* Latin letter, the slash, a CJK ideograph, a digit).
FilterPieces ==
  {<<" ">>, <<"a","Z">>, <<"a">>, <<"/">>, <<"U+4E2D">>, <<"1">>}

RECURSIVE Flatten(_)
Flatten(ps) == IF ps = <<>> THEN <<>> ELSE Head(ps) \o Flatten(Tail(ps))

FilterTexts(n) == {Flatten(ps) : ps \in SeqsUpTo(FilterPieces, n)}

\* result = should_check_grammar(text)
FilterApply ==
  /\ pc = "idle"
  /\ mode = "none"
  /\ mode' = "filter"
  /\ run' = [run EXCEPT !.admitted = should_check_grammar(run.user_prompt)]
  /\ UNCHANGED <<today, store, txn, rec, pc, logDocs, queueFile, queueKind, out, drain, runs, conc>>

InitFilter ==
  /\ today = 0
  /\ store = EmptyStore
  /\ txn = [open |-> FALSE, db |-> EmptyStore]
  /\ rec = NoRec
  /\ pc = "idle"
  /\ mode = "none"
  /\ logDocs = [d \in Days |-> <<>>]
  /\ queueFile = <<>>
  /\ queueKind = "absent"
  /\ run \in {[NoRun EXCEPT !.user_prompt = t] : t \in FilterTexts(MaxPieces)}
  /\ out = NoProcess
  /\ drain = NoDrain
  /\ runs = 0
  /\ conc = [p \in Procs |-> NoConn]

NextFilter == FilterApply

SpecFilter == InitFilter /\ [][NextFilter]_vars

\* ------------------------------ language_detect.py: the share of Chinese
MaxSharePieces == 6

\* The texts the rule is applied to: every concatenation of at most
\* MaxSharePieces of these pieces (a CJK ideograph, three Latin letters of
\* either case, one Latin letter, the Kelvin sign, a blank).
SharePieces ==
  {<<"U+4E2D">>, <<"a","Z","a">>, <<"a">>, <<"U+212A">>, <<" ">>}

ShareTexts(n) == {Flatten(ps) : ps \in SeqsUpTo(SharePieces, n)}

\* result = is_primarily_chinese(text)
ShareApply ==
  /\ pc = "idle"
  /\ mode = "none"
  /\ mode' = "share"
  /\ run' = [run EXCEPT !.primarily_chinese = is_primarily_chinese(run.user_prompt)]
  /\ UNCHANGED <<today, store, txn, rec, pc, logDocs, queueFile, queueKind, out, drain, runs, conc>>

InitShare ==
  /\ today = 0
  /\ store = EmptyStore
  /\ txn = [open |-> FALSE, db |-> EmptyStore]
  /\ rec = NoRec
  /\ pc = "idle"
  /\ mode = "none"
  /\ logDocs = [d \in Days |-> <<>>]
  /\ queueFile = <<>>
  /\ queueKind = "absent"
  /\ run \in {[NoRun EXCEPT !.user_prompt = t] : t \in ShareTexts(MaxSharePieces)}
  /\ out = NoProcess
  /\ drain = NoDrain
  /\ runs = 0
  /\ conc = [p \in Procs |-> NoConn]

NextShare == ShareApply

SpecShare == InitShare /\ [][NextShare]_vars

\* ------------------------------- claude_api.py: the reply of the analyzer
MaxResponse == 5

\* The reply text, as a sequence of lexical pieces: the two braces, a
\* member ("key": value) of an object, a number, a word of prose, a blank.
ResponseSymbols == {"{", "}", "m", "1", "w", " "}

\* client.messages.create(...) raised: there is no reply text.
ApiError == <<"APIError">>

Responses(n) == SeqsUpTo(ResponseSymbols, n) \cup {ApiError}

JSONDecodeError == [JSONDecodeError |-> TRUE]

\* json.loads(text): blanks between pieces are insignificant; the texts
\* that parse are an object with no or one member, and a number.
JsonLoads(text) ==
  LET c == SelectSeq(text, LAMBDA x : x # " ")
  IN  IF c = <<"{", "}">> THEN [json |-> "object", members |-> 0]
      ELSE IF c = <<"{", "m", "}">> THEN [json |-> "object", members |-> 1]
      ELSE IF c = <<"1">> THEN NotADict
      ELSE JSONDecodeError

\* re.search(r'\{[\s\S]*\}', text): from the first "{" to the last "}",
\* None when no "}" follows the first "{".
RegexSearch(text) ==
  LET opens == {i \in 1..Len(text) : text[i] = "{"}
      closes == {i \in 1..Len(text) : text[i] = "}"}
  IN  IF opens = {} \/ closes = {} THEN None
      ELSE LET i == CHOOSE x \in opens : \A y \in opens : x <= y
               j == CHOOSE x \in closes : \A y \in closes : y <= x
           IN  IF i < j THEN SubSeq(text, i, j) ELSE None

\* Lines 103-126: the reply is stripped and parsed strictly; on
\* JSONDecodeError the brace-delimited match is parsed; any exception of
\* the call gives None.
analyze_grammar(response) ==
  IF response = ApiError THEN NoAnalysis
  ELSE LET result_text == Strip(response)
           strict == JsonLoads(result_text)
           match == RegexSearch(result_text)
       IN  IF strict # JSONDecodeError THEN strict
           ELSE IF match = None THEN NoAnalysis
           ELSE IF JsonLoads(match) # JSONDecodeError THEN JsonLoads(match)
           ELSE NoAnalysis

\* analysis = analyze_grammar(user_message), for the reply of the service.
ParseApply ==
  /\ pc = "idle"
  /\ mode = "none"
  /\ mode' = "parse"
  /\ run' = [run EXCEPT !.analysis = analyze_grammar(run.response),
                        !.analyzer_calls = @ + 1]
  /\ UNCHANGED <<today, store, txn, rec, pc, logDocs, queueFile, queueKind, out, drain, runs, conc>>

InitParse ==
  /\ today = 0
  /\ store = EmptyStore
  /\ txn = [open |-> FALSE, db |-> EmptyStore]
  /\ rec = NoRec
  /\ pc = "idle"
  /\ mode = "none"
  /\ logDocs = [d \in Days |-> <<>>]
  /\ queueFile = <<>>
  /\ queueKind = "absent"
  /\ run \in {[NoRun EXCEPT !.user_prompt = TextEnglish, !.response = r] : r \in Responses(MaxResponse)}
  /\ out = NoProcess
  /\ drain = NoDrain
  /\ runs = 0
  /\ conc = [p \in Procs |-> NoConn]

NextParse == ParseApply

SpecParse == InitParse /\ [][NextParse]_vars

\* ------------------------------------------------- db.py: the read side
MaxReadDay == 8
MaxWeeksBack == 2

\* Dates are day numbers; day 0 is a Monday.  date.weekday(): Monday is 0.
ReadDays == 0..MaxReadDay
Weekday(d) == d % 7

\* The findings of the saves that filled the store.
ReadErrorLists == {<<>>, <<ErrFull(spelling), ErrNoCategory>>}

\* save_correction, committed on one day: the Correction, its
\* ErrorFindings under their normalized category, the daily_stats upsert.
SaveCommitted(st, day, errors) ==
  LET id == Len(st.corrections) + 1
      row == [id |-> id, timestamp |-> day,
              original_text |-> TextEnglish, user_text |-> TextEnglish,
              better_expression |-> TextBetter, summary |-> TextSummary]
      rows == [j \in 1..Len(errors) |->
                 [correction_id |-> id,
                  original |-> Get(errors[j], "original", <<>>),
                  correction |-> Get(errors[j], "correction", <<>>),
                  explanation |-> Get(errors[j], "explanation", <<>>),
                  category |-> NormalizeCategory(errors[j])]]
      counts == [c \in Categories |->
                   Cardinality({j \in 1..Len(errors) : NormalizeCategory(errors[j]) = c})]
  IN  [corrections |-> Append(st.corrections, row),
       errors |-> st.errors \o rows,
       daily_stats |-> Upsert(st.daily_stats, day, counts)]

RECURSIVE StoreAfter(_)
StoreAfter(saves) ==
  IF saves = <<>> THEN EmptyStore
  ELSE SaveCommitted(StoreAfter(SubSeq(saves, 1, Len(saves) - 1)),
                     saves[Len(saves)].day, saves[Len(saves)].errors)

\* The stores a read can find: up to n saves, on days in order.
ReadStores(n) ==
  {StoreAfter(saves) :
     saves \in {h \in SeqsUpTo([day : ReadDays, errors : ReadErrorLists], n) :
                  \A i \in 1..(Len(h) - 1) : h[i].day <= h[i + 1].day}}

\* A column of an aggregate row: SUM over no rows is NULL.
SqlNull == [null |-> TRUE]
SqlInt(n) == [null |-> FALSE, v |-> n]

RECURSIVE SeqSum(_)
SeqSum(q) == IF q = <<>> THEN 0 ELSE Head(q) + SeqSum(Tail(q))

SqlSum(rows, column) ==
  IF rows = <<>> THEN SqlNull ELSE SqlInt(SeqSum([i \in 1..Len(rows) |-> rows[i][column]]))

\* row[column] or 0
OrZero_One(x) == IF x.null THEN 1 ELSE x.v

OrZero(x) == IF x.null THEN 0 ELSE x.v

StatsColumns ==
  {"total_corrections", "spelling_count", "grammar_count", "style_count", "vocabulary_count"}

\* get_daily_stats: the row of target_date, or the all-zero dict.
DailyStats(st, target_date) ==
  IF target_date \in StatsDates(st.daily_stats)
  THEN StatsRow(st.daily_stats, target_date)
  ELSE [date |-> target_date, total_corrections |-> 0, spelling_count |-> 0,
        grammar_count |-> 0, style_count |-> 0, vocabulary_count |-> 0]

RECURSIVE Reverse(_)
Reverse(q) == IF q = <<>> THEN <<>> ELSE Append(Reverse(Tail(q)), Head(q))

\* get_daily_corrections: WHERE date(timestamp) = ? ORDER BY timestamp DESC,
\* each Correction with the findings of its id.
DailyCorrections(st, target_date) ==
  LET on == SelectSeq(st.corrections, LAMBDA c : c.timestamp = target_date)
      withErrors(c) ==
        [id |-> c.id, timestamp |-> c.timestamp, original_text |-> c.original_text,
         user_text |-> c.user_text, better_expression |-> c.better_expression,
         summary |-> c.summary,
         errors |-> SelectSeq(st.errors, LAMBDA e : e.correction_id = c.id)]
  IN  Reverse([i \in 1..Len(on) |-> withErrors(on[i])])

\* start_of_week = today - timedelta(days=today.weekday() + 7 * weeks_back);
\* end_of_week = start_of_week + timedelta(days=6)
WeekWindow_EightDays(day, weeks_back) ==
  [week_start |-> day - (Weekday(day) + 7 * weeks_back),
   week_end |-> day - (Weekday(day) + 7 * weeks_back) + 7]

WeekWindow(day, weeks_back) ==
  [week_start |-> day - (Weekday(day) + 7 * weeks_back),
   week_end |-> day - (Weekday(day) + 7 * weeks_back) + 6]

\* get_weekly_stats: COUNT(*) and the SUMs over the rows of daily_stats
\* WHERE date BETWEEN week_start AND week_end.
WeeklyStats(st, day, weeks_back) ==
  LET w == WeekWindow(day, weeks_back)
      rows == SelectSeq(st.daily_stats,
                        LAMBDA r : w.week_start <= r.date /\ r.date <= w.week_end)
  IN  [week_start |-> w.week_start, week_end |-> w.week_end,
       total_corrections |-> OrZero(SqlInt(Len(rows))),
       spelling_count |-> OrZero(SqlSum(rows, "spelling_count")),
       grammar_count |-> OrZero(SqlSum(rows, "grammar_count")),
       style_count |-> OrZero(SqlSum(rows, "style_count")),
       vocabulary_count |-> OrZero(SqlSum(rows, "vocabulary_count"))]

\* get_all_time_stats: COUNT(*) and the SUMs over all rows of daily_stats.
AllTimeStats(st) ==
  LET rows == st.daily_stats
  IN  [total_days |-> OrZero(SqlInt(Len(rows))),
       total_corrections |-> OrZero(SqlSum(rows, "total_corrections")),
       spelling_count |-> OrZero(SqlSum(rows, "spelling_count")),
       grammar_count |-> OrZero(SqlSum(rows, "grammar_count")),
       style_count |-> OrZero(SqlSum(rows, "style_count")),
       vocabulary_count |-> OrZero(SqlSum(rows, "vocabulary_count"))]

\* get_top_errors: the findings of the Corrections with date(timestamp) >=
\* today - days, grouped by (original, correction), with their count; the
\* category is the one of some row of the group; ORDER BY count DESC (ties
\* in any order) LIMIT limit.  The set of the results the query can give.
TopErrors(st, day, limit, days) ==
  LET start_date == day - days
      recent == {c.id : c \in {st.corrections[i] : i \in 1..Len(st.corrections)}
                          \cap {c \in {st.corrections[i] : i \in 1..Len(st.corrections)} :
                                  c.timestamp >= start_date}}
      joined == {i \in 1..Len(st.errors) : st.errors[i].correction_id \in recent}
      key(i) == <<st.errors[i].original, st.errors[i].correction>>
      groups == {key(i) : i \in joined}
      count(g) == Cardinality({i \in joined : key(i) = g})
      lines == {[original |-> st.errors[i].original, correction |-> st.errors[i].correction,
                 category |-> st.errors[i].category, count |-> count(key(i))] :
                  i \in joined}
      size == IF Cardinality(groups) < limit THEN Cardinality(groups) ELSE limit
  IN  {res \in SeqsUpTo(lines, size) :
         /\ Len(res) = size
         /\ \A a, b \in 1..size : a < b =>
               /\ <<res[a].original, res[a].correction>> # <<res[b].original, res[b].correction>>
               /\ res[a].count >= res[b].count
         /\ \A g \in groups :
               (\A a \in 1..size : <<res[a].original, res[a].correction>> # g)
                 => \A a \in 1..size : res[a].count >= count(g)}

\* The frame of a read: the function, its arguments as resolved, the store
\* it found, what it returned.
ReadFrame(op, args, result) == [op |-> op, args |-> args, pre |-> store, result |-> result]

\* get_daily_stats(target_date=None)
GetDailyStats ==
  /\ pc = "idle" /\ mode = "none"
  /\ \E explicit \in BOOLEAN, d \in ReadDays :
       LET target_date == IF explicit THEN d ELSE today
       IN  rec' = ReadFrame("get_daily_stats", <<target_date>>, DailyStats(store, target_date))
  /\ mode' = "read"
  /\ UNCHANGED <<today, store, txn, pc, others>>

\* get_daily_corrections(target_date=None)
GetDailyCorrections ==
  /\ pc = "idle" /\ mode = "none"
  /\ \E explicit \in BOOLEAN, d \in ReadDays :
       LET target_date == IF explicit THEN d ELSE today
       IN  rec' = ReadFrame("get_daily_corrections", <<target_date>>,
                            DailyCorrections(store, target_date))
  /\ mode' = "read"
  /\ UNCHANGED <<today, store, txn, pc, others>>

\* get_weekly_stats(weeks_back=0)
GetWeeklyStats ==
  /\ pc = "idle" /\ mode = "none"
  /\ \E weeks_back \in 0..MaxWeeksBack :
       rec' = ReadFrame("get_weekly_stats", <<weeks_back>>,
                        WeeklyStats(store, today, weeks_back))
  /\ mode' = "read"
  /\ UNCHANGED <<today, store, txn, pc, others>>

\* get_top_errors(limit=5, days=7), as the summary scripts call it
GetTopErrors ==
  /\ pc = "idle" /\ mode = "none"
  /\ \E args \in {<<5, 1>>, <<5, 7>>, <<5, 30>>, <<1, 7>>} :
       \E result \in TopErrors(store, today, args[1], args[2]) :
         rec' = ReadFrame("get_top_errors", args, result)
  /\ mode' = "read"
  /\ UNCHANGED <<today, store, txn, pc, others>>

\* get_all_time_stats()
GetAllTimeStats ==
  /\ pc = "idle" /\ mode = "none"
  /\ rec' = ReadFrame("get_all_time_stats", <<>>, AllTimeStats(store))
  /\ mode' = "read"
  /\ UNCHANGED <<today, store, txn, pc, others>>

\* A store that saves have filled, read on the day of the last save or
\* later.
InitRead ==
  /\ store \in ReadStores(MaxCorrections)
  /\ today \in {d \in ReadDays :
                  \A i \in 1..Len(store.corrections) : store.corrections[i].timestamp <= d}
  /\ txn = [open |-> FALSE, db |-> store]
  /\ rec = NoRec
  /\ pc = "idle"
  /\ mode = "none"
  /\ logDocs = [d \in Days |-> <<>>]
  /\ queueFile = <<>>
  /\ queueKind = "absent"
  /\ run = NoRun
  /\ out = NoProcess
  /\ drain = NoDrain
  /\ runs = 0
  /\ conc = [p \in Procs |-> NoConn]

NextRead ==
  \/ GetDailyStats
  \/ GetDailyCorrections
  \/ GetWeeklyStats
  \/ GetTopErrors
  \/ GetAllTimeStats

SpecRead == InitRead /\ [][NextRead]_vars

\* ------------------------------------------- claims on the structured store
Last(q) == q[Len(q)]

CorrectionsOn(st, d) ==
  {st.corrections[i].id : i \in {k \in 1..Len(st.corrections) : st.corrections[k].timestamp = d}}

FindingsOn(st, d, cat) ==
  Cardinality({j \in 1..Len(st.errors) :
                 /\ st.errors[j].correction_id \in CorrectionsOn(st, d)
                 /\ st.errors[j].category = cat})

CountOf(row, cat) ==
  IF cat = spelling THEN row.spelling_count
  ELSE IF cat = grammar THEN row.grammar_count
  ELSE IF cat = style THEN row.style_count
  ELSE row.vocabulary_count

\* The category a finding is expected to be stored under.
ExpectedCategory(error) ==
  IF "category" \notin DOMAIN error THEN grammar
  ELSE IF error["category"] \in Categories THEN error["category"]
  ELSE IF error["category"] = <<"S","t","y","l","e">> THEN style
  ELSE grammar

ExpectedCount(errors, cat) ==
  Cardinality({j \in 1..Len(errors) : ExpectedCategory(errors[j]) = cat})

\* The step on which a call of save_correction returns / raises.
RecordReturns == pc \in DbPcs /\ rec'.result = "returned"
RecordRaises == pc \in DbPcs /\ rec'.result = "raised"

\* C3: in every state of the store, for every date D the daily_stats row of
\* D has total_corrections equal to the number of Corrections whose
\* timestamp falls on D and each category count equal to the number of
\* their ErrorFindings of that category; a date without a row has no
\* Corrections.
C3_CounterEqualsCorrections ==
  \A d \in Days :
    IF d \in StatsDates(store.daily_stats)
    THEN LET row == StatsRow(store.daily_stats, d)
         IN  /\ row.total_corrections = Cardinality(CorrectionsOn(store, d))
             /\ \A cat \in Categories : CountOf(row, cat) = FindingsOn(store, d, cat)
    ELSE CorrectionsOn(store, d) = {}

\* C4: record is all-or-nothing.  While a call is in progress nothing of it
\* is visible in the store; when it raises, at whatever step, the store is
\* what it was before the call; when it returns, the Correction, all its
\* ErrorFindings and the DailyCounter change are visible.
C4_AllOrNothing ==
  [][/\ (pc \in DbPcs => store = rec.pre)
     /\ (RecordRaises => store' = rec.pre)
     /\ (RecordReturns =>
           LET n == Len(rec.pre.corrections)
               m == Len(rec.pre.errors)
               d == rec.upsert_date
           IN  /\ Len(store'.corrections) = n + 1
               /\ SubSeq(store'.corrections, 1, n) = rec.pre.corrections
               /\ Last(store'.corrections).id = rec.correction_id
               /\ Last(store'.corrections).original_text = rec.original_text
               /\ Len(store'.errors) = m + Len(rec.errors)
               /\ SubSeq(store'.errors, 1, m) = rec.pre.errors
               /\ \A j \in 1..Len(rec.errors) :
                    store'.errors[m + j].correction_id = rec.correction_id
               /\ d \in StatsDates(store'.daily_stats)
               /\ StatsRow(store'.daily_stats, d).total_corrections =
                    1 + (IF d \in StatsDates(rec.pre.daily_stats)
                         THEN StatsRow(rec.pre.daily_stats, d).total_corrections
                         ELSE 0))
    ]_vars

\* A call failed after its Correction, an ErrorFinding and the DailyCounter
\* upsert were executed, with an earlier Correction in the store.
C4_Witness ==
  /\ rec.result = "raised"
  /\ rec.failed_at = "db_commit"
  /\ Len(store.corrections) = 1
  /\ Len(txn.db.corrections) = 1

\* C5: a successful record on date D (the date its upsert reads) creates
\* D's DailyCounter row if absent and otherwise updates it in place:
\* total_corrections + 1, each category count + the number of findings of
\* that normalized category; the rows of all other dates are unchanged.
C5_UpsertFrame ==
  [][RecordReturns =>
       LET d == rec.upsert_date
           old == store.daily_stats
           new == store'.daily_stats
           row == StatsRow(new, d)
       IN  /\ StatsDates(new) = StatsDates(old) \cup {d}
           /\ Len(new) = Cardinality(StatsDates(new))
           /\ \A e \in StatsDates(old) \ {d} : StatsRow(new, e) = StatsRow(old, e)
           /\ IF d \in StatsDates(old)
              THEN /\ row.total_corrections = StatsRow(old, d).total_corrections + 1
                   /\ \A cat \in Categories :
                        CountOf(row, cat) =
                          CountOf(StatsRow(old, d), cat) + ExpectedCount(rec.errors, cat)
              ELSE /\ row.total_corrections = 1
                   /\ \A cat \in Categories :
                        CountOf(row, cat) = ExpectedCount(rec.errors, cat)
    ]_vars

\* A row created by a Correction with one spelling finding was updated in
\* place by a second Correction with two grammar findings.
C5_Witness ==
  /\ rec.result = "returned"
  /\ Len(store.daily_stats) = 1
  /\ store.daily_stats[1].total_corrections = 2
  /\ store.daily_stats[1].spelling_count = 1
  /\ store.daily_stats[1].grammar_count = 2
  /\ store.errors[1].category = spelling

\* C6 as stated: every finding whose category is absent or is any value
\* outside {spelling, grammar, style, vocabulary} is stored with category
\* grammar and counted in grammar_count; every stored category is one of
\* the four values.
C6_UnrecognizedIsGrammar ==
  [][RecordReturns =>
       LET m == Len(store.errors)
       IN  /\ \A j \in 1..Len(rec.errors) :
                ("category" \notin DOMAIN rec.errors[j]
                   \/ rec.errors[j]["category"] \notin Categories)
                => store'.errors[m + j].category = grammar
           /\ \A j \in 1..Len(store'.errors) : store'.errors[j].category \in Categories
    ]_vars

\* C6 amended: the category is compared case-insensitively.  A finding is
\* stored under the lowercase form of its category when that is one of the
\* four values, and under grammar when the category is absent or its
\* lowercase form is none of them; the DailyCounter count incremented for
\* it is the one of the stored category; a record given a category that is
\* not a string raises and stores nothing; every stored category is one of
\* the four values.
C6_NormalizedCategory ==
  [][/\ RecordReturns =>
          LET m == Len(store.errors)
              d == rec.upsert_date
              before(cat) == IF d \in StatsDates(store.daily_stats)
                             THEN CountOf(StatsRow(store.daily_stats, d), cat) ELSE 0
          IN  /\ \A j \in 1..Len(rec.errors) :
                   store'.errors[m + j].category = ExpectedCategory(rec.errors[j])
              /\ \A cat \in Categories :
                   CountOf(StatsRow(store'.daily_stats, d), cat) - before(cat)
                     = Cardinality({j \in 1..Len(rec.errors) :
                                      store'.errors[m + j].category = cat})
              /\ \A j \in 1..Len(rec.errors) : rec.errors[j] # ErrFull(None)
              /\ \A j \in 1..Len(store'.errors) : store'.errors[j].category \in Categories
     /\ (pc = "db_errors" /\ rec.errors[rec.i] = ErrFull(None) /\ rec' # rec)
          => RecordRaises /\ store' = store
    ]_vars

\* One committed Correction holds a finding given as "Style", stored as
\* style, and a finding given as "typo", stored as grammar.
C6_Witness ==
  \E j, k \in 1..Len(store.errors) :
    /\ store.errors[j].category = style
    /\ store.errors[k].category = grammar
    /\ store.errors[j].correction_id = store.errors[k].correction_id
    /\ store.errors[k].explanation = <<"t","y","p","o">>
    /\ store.daily_stats[1].style_count = 1
    /\ store.daily_stats[1].grammar_count = 1

\* ------------------------------------------------- claims on the pipeline
HookDone == mode = "primary" /\ pc = "idle"
DrainDone == mode = "drain" /\ pc = "idle"

\* C1: a hook invocation whose text the Admission Filter admits and whose
\* analyzer call returns None ends with the text appended, as exactly one
\* entry, to the retry queue.
C1_FailedIsEnqueued ==
  (HookDone /\ run.admitted /\ run.analyzer_calls = 1 /\ IsNone(run.analysis))
  => /\ Len(queueFile) = Len(run.queue0) + 1
     /\ SubSeq(queueFile, 1, Len(run.queue0)) = run.queue0
     /\ Last(queueFile)["prompt"] = run.user_prompt

\* C2: every hook invocation writes exactly one JSON object to stdout and
\* exits with status 0, on every path; until it exits it has written nothing
\* else.
C2_OneObjectExitZero ==
  /\ HookDone => out.stdout = <<"{}">> /\ out.exited /\ out.status = 0
  /\ (mode = "primary" /\ pc # "idle") => out.stdout = <<>> /\ ~out.exited

\* A hook invocation has ended through its exception handler, the notifier
\* text having raised KeyError after the Correction was committed.
C2_Witness ==
  /\ HookDone
  /\ run.log_result = "true"
  /\ rec.result = "returned"
  /\ Len(store.corrections) = 1
  /\ Get(run.analysis, "errors", <<>>) = <<ErrNoOriginal>>
  /\ out.stdout = <<"{}">>

C8_LogFailureKeepsRecord ==
  (HookDone /\ run.log_result \in {"false", "raised_oserror", "raised_keyerror"}
            /\ rec.result # "raised")
  => /\ rec.result = "returned"
     /\ Len(store.corrections) = Len(rec.pre.corrections) + 1
     /\ store.daily_stats # rec.pre.daily_stats

\* C9: the Log Writer append never raises on an I/O failure, and returns
\* true only when the block was appended.
C9_AppendNeverRaises ==
  /\ run.log_result # "raised_oserror"
  /\ run.log_result = "true" => Len(logDocs[run.file_date]) > 0

\* ---------------------------------------------------- claims on the drain
\* The entries of the loaded queue for which analyze_grammar returned None
\* on both attempts, in the order of the queue.
RECURSIVE FailedTwice(_, _, _)
FailedTwice(queue, calls, i) ==
  IF i > Len(queue) THEN <<>>
  ELSE (IF calls[i] = <<TRUE, TRUE>> THEN <<queue[i]>> ELSE <<>>)
       \o FailedTwice(queue, calls, i + 1)

\* C10: after a drain run that completes, the persisted queue is exactly
\* the subsequence, in original order, of the entries for which the
\* analyzer returned Failed on both attempts; every other entry is absent,
\* and the queue size is the count of double-Failed entries.
C10_QueueIsDoubleFailed ==
  (DrainDone /\ out.status = 0)
  => /\ queueFile = FailedTwice(drain.queue, drain.calls, 1)
     /\ Len(queueFile) =
          Cardinality({i \in 1..Len(drain.queue) : drain.calls[i] = <<TRUE, TRUE>>})

\* A completed run over two distinct entries, both failed
\* twice and both kept, in order.
C10_Witness ==
  /\ DrainDone
  /\ drain.saved
  /\ Len(drain.queue) = 2
  /\ drain.queue[1] # drain.queue[2]
  /\ queueFile = drain.queue
  /\ run.analyzer_calls = 4

\* C11: a drain run never raises past its own boundary: whatever the queue
\* file holds and whatever fails while an entry is processed, the run ends
\* by reporting its summary, with exit status 0.
C11_DrainNeverRaises ==
  DrainDone => /\ out.status = 0
               /\ Last(out.stdout) \in {"Done", "No failed checks in retry queue."}

\* The queue file is absent or corrupt: not an array, or an array with an
\* element that is not an object.
CorruptQueue ==
  \/ queueKind # "array"
  \/ \E i \in 1..Len(run.queue0) : ~IsDict(run.queue0[i])

\* C12: a drain run over an absent or corrupt queue file treats it as an
\* empty queue: it makes no analyzer call, records nothing, appends nothing
\* to the log and does not fail.
C12_CorruptIsEmpty ==
  (mode = "drain" /\ CorruptQueue)
  => /\ run.analyzer_calls = 0
     /\ store = EmptyStore
     /\ \A d \in Days : logDocs[d] = <<>>
     /\ pc # "raised"
     /\ out.status = 0

ReceivesResult ==
  /\ pc = "analyze"
  /\ run'.analyzer_calls = run.analyzer_calls + 1
  /\ IsDict(run'.analysis)
  /\ ~GetFlag(run'.analysis, "skipped")

Filtered == mode = "filter"
Rejected == Filtered /\ ~run.admitted

CountCJK(t) == Cardinality({i \in 1..Len(t) : t[i] \in CJKChars})
\* The Latin letters are the characters whose lower case is a to z.
CountLatin(t) ==
  Cardinality({i \in 1..Len(t) : LowerChar(t[i]) \in {LowerLetters[j] : j \in 1..26}})
TokenStarts(t) ==
  {i \in 1..Len(t) : t[i] \notin Whitespace /\ (i = 1 \/ t[i - 1] \in Whitespace)}

\* The six conditions of the Admission Filter.
OnlyWhitespace(t) == \A i \in 1..Len(t) : t[i] \in Whitespace
BeginsWithSlash(t) == Len(t) > 0 /\ t[1] = "/"
PureChinese(t) ==
  \A i \in 1..Len(t) :
    t[i] \in CJKChars \/ t[i] \in Whitespace \/ t[i] \in Digits
      \/ t[i] \notin (AsciiLetters \cup OtherLetters \cup {"_"})
PrimarilyChinese(t) ==
  \/ CountCJK(t) + CountLatin(t) = 0
  \/ 10 * CountCJK(t) > 3 * (CountCJK(t) + CountLatin(t))
NoLatinRun(t) ==
  \A i \in 1..Len(t) : ~(i < Len(t) /\ t[i] \in AsciiLetters /\ t[i + 1] \in AsciiLetters)
FewTokens(t) == Cardinality(TokenStarts(t)) < 3

\* The slash condition as the code has it: the first character that is not
\* whitespace is the slash.
SlashAfterBlanks(t) ==
  \E i \in 1..Len(t) : t[i] = "/" /\ \A j \in 1..(i - 1) : t[j] \in Whitespace

\* C15 as stated: the filter rejects a text exactly when it is empty or
\* whitespace only, or begins with the slash, or is pure Chinese, or is
\* primarily Chinese or without letters, or has no run of two Latin letters,
\* or has fewer than 3 tokens.
C15_RejectsExactlySix ==
  Filtered
  => (~run.admitted
       <=> LET t == run.user_prompt
           IN  \/ OnlyWhitespace(t) \/ BeginsWithSlash(t) \/ PureChinese(t)
               \/ PrimarilyChinese(t) \/ NoLatinRun(t) \/ FewTokens(t))

\* C15 amended: as stated, with the slash condition taken after leading
\* whitespace is stripped.
C15_RejectsExactlySixStripped ==
  Filtered
  => (~run.admitted
       <=> LET t == run.user_prompt
           IN  \/ OnlyWhitespace(t) \/ SlashAfterBlanks(t) \/ PureChinese(t)
               \/ PrimarilyChinese(t) \/ NoLatinRun(t) \/ FewTokens(t))

\* A text of three tokens with a Latin word, whose first character is a
\* blank and whose first token begins with the slash, was rejected.
C15_Witness ==
  /\ Rejected
  /\ LET t == run.user_prompt
     IN  /\ SlashAfterBlanks(t) /\ ~BeginsWithSlash(t)
         /\ ~PureChinese(t) /\ ~PrimarilyChinese(t) /\ ~NoLatinRun(t) /\ ~FewTokens(t)

\* C16: every text that splits on whitespace into fewer than 3 tokens is
\* rejected, whatever the characters of its tokens.
C16_FewTokensRejected ==
  (Filtered /\ FewTokens(run.user_prompt)) => ~run.admitted

\* A text of exactly two tokens that passes every other condition (a Latin
\* word, no CJK, no leading slash) was rejected.
C16_Witness ==
  /\ Rejected
  /\ LET t == run.user_prompt
     IN  /\ Cardinality(TokenStarts(t)) = 2
         /\ ~NoLatinRun(t) /\ ~PrimarilyChinese(t) /\ ~SlashAfterBlanks(t)

\* C17: every text that is pure CJK once whitespace, digits and
\* punctuation are stripped (empty after stripping included) is rejected,
\* whatever its number of tokens.
C17_PureCJKRejected ==
  (Filtered /\ PureChinese(run.user_prompt)) => ~run.admitted

\* A text of three tokens, with ideographs, a digit and no Latin letter,
\* was rejected.
C17_Witness ==
  /\ Rejected
  /\ LET t == run.user_prompt
     IN  /\ PureChinese(t)
         /\ Cardinality(TokenStarts(t)) = 3
         /\ CountCJK(t) >= 2
         /\ \E i \in 1..Len(t) : t[i] \in Digits
         /\ ~SlashAfterBlanks(t)

\* ------------------------------------------------ claims on the analyzer
Parsed == mode = "parse" /\ run.response # ApiError

\* The brace-delimited substrings of the reply that are valid JSON objects.
ObjectsIn(t) ==
  {ij \in (1..Len(t)) \X (1..Len(t)) :
     /\ ij[1] < ij[2]
     /\ t[ij[1]] = "{" /\ t[ij[2]] = "}"
     /\ "json" \in DOMAIN JsonLoads(SubSeq(t, ij[1], ij[2]))}

\* C18: a reply that contains one valid brace-delimited JSON object, alone
\* or wrapped in prose, gives that object; a reply that contains no valid
\* JSON object anywhere gives None.
C18_RecoversObject ==
  Parsed
  => LET t == run.response
     IN  /\ Cardinality(ObjectsIn(t)) = 1
            => \A ij \in ObjectsIn(t) : run.analysis = JsonLoads(SubSeq(t, ij[1], ij[2]))
         /\ ObjectsIn(t) = {} => IsNone(run.analysis)

\* ------------------------------------------------- claims on the reads
ReadOf(op) == mode = "read" /\ rec.op = op

NoRowsIn(lo, hi) ==
  \A i \in 1..Len(store.daily_stats) :
    ~(lo <= store.daily_stats[i].date /\ store.daily_stats[i].date <= hi)

AllZero(result) == \A k \in StatsColumns : result[k] = 0

\* C19: every read of the store, on an empty store or for a date or
\* window with no activity, returns zeros or the empty sequence, and leaves
\* the Correction, ErrorFinding and DailyCounter rows unchanged.
C19_ReadsTolerateEmpty ==
  /\ mode = "read" => store = rec.pre
  /\ (ReadOf("get_daily_stats") /\ rec.args[1] \notin StatsDates(store.daily_stats))
       => AllZero(rec.result) /\ rec.result.date = rec.args[1]
  /\ (ReadOf("get_daily_corrections")
        /\ \A i \in 1..Len(store.corrections) : store.corrections[i].timestamp # rec.args[1])
       => rec.result = <<>>
  /\ (ReadOf("get_weekly_stats")
        /\ NoRowsIn(rec.result.week_start, rec.result.week_end))
       => AllZero(rec.result)
  /\ (ReadOf("get_top_errors")
        /\ \A i \in 1..Len(store.errors) :
              \E j \in 1..Len(store.corrections) :
                /\ store.corrections[j].id = store.errors[i].correction_id
                /\ store.corrections[j].timestamp < today - rec.args[2])
       => rec.result = <<>>
  /\ (ReadOf("get_all_time_stats") /\ store = EmptyStore)
       => AllZero(rec.result) /\ rec.result.total_days = 0

\* The weekly read of a week without activity, on a store that has
\* activity in another week, returned zeros.
C19_Witness ==
  /\ ReadOf("get_weekly_stats")
  /\ store.daily_stats # <<>>
  /\ NoRowsIn(rec.result.week_start, rec.result.week_end)
  /\ AllZero(rec.result)
  /\ store = rec.pre

\* C20: for every value of today's date and every weeks_back k, the
\* window of get_weekly_stats(k) starts on a Monday and spans 7 consecutive
\* days; the window for k + 1 ends on the day before the window for k
\* starts; the window for k = 0 contains today.
C20_WeekWindows ==
  ReadOf("get_weekly_stats")
  => LET k == rec.args[1]
         w == rec.result
         earlier == WeekWindow(today, k + 1)
     IN  /\ Weekday(w.week_start) = 0
         /\ w.week_end - w.week_start + 1 = 7
         /\ earlier.week_end + 1 = w.week_start
         /\ earlier.week_end - earlier.week_start + 1 = 7
         /\ k = 0 => w.week_start <= today /\ today <= w.week_end

\* The window of last week, asked on a Sunday in the second week.
C20_Witness ==
  /\ ReadOf("get_weekly_stats")
  /\ rec.args[1] = 1
  /\ Weekday(today) = 6
  /\ rec.result.week_start = today - 13
  /\ rec.result.week_end = today - 7

\* The rows of daily_stats whose date lies in the window lo..hi.
RowsIn(lo, hi) ==
  SelectSeq(store.daily_stats, LAMBDA r : lo <= r.date /\ r.date <= hi)

\* C21: get_weekly_stats returns the aggregate of the DailyCounter rows of
\* its week window: total_corrections is the sum of total_corrections over
\* the rows whose date lies in the window, which is the number of
\* Corrections recorded in that week, and each category count is the sum of
\* that category's counts over those rows.
C21_WeeklyIsSumOfRows ==
  ReadOf("get_weekly_stats")
  => LET w == rec.result
         rows == RowsIn(w.week_start, w.week_end)
         sum(column) == SeqSum([i \in 1..Len(rows) |-> rows[i][column]])
     IN  /\ w.total_corrections = sum("total_corrections")
         /\ w.total_corrections =
              Cardinality({i \in 1..Len(store.corrections) :
                             /\ w.week_start <= store.corrections[i].timestamp
                             /\ store.corrections[i].timestamp <= w.week_end})
         /\ \A column \in StatsColumns \ {"total_corrections"} : w[column] = sum(column)

\* ------------------------------------------- claims on repeated drain runs
\* The text of a queue entry, as recall.main reads it.
PromptOf(item) == Get(item, "prompt", <<>>)

\* The entry at position i of the loaded queue was resolved in this run: its
\* text is one the Admission Filter rejects, or a call of the analyzer for
\* it returned something other than None.
ResolvedInRun(i) ==
  \/ ~should_check_grammar(PromptOf(drain.queue[i]))
  \/ \E k \in 1..Len(drain.calls[i]) : drain.calls[i][k] = FALSE

\* The queue file changes only when a run saves, and what the run saves is
\* the loaded queue without entries it resolved.
QueueLosesOnlyResolved ==
  [][queueFile' # queueFile
     => /\ pc = "drain_save"
        /\ drain.queue = queueFile
        /\ queueFile' = FailedTwice(drain.queue, drain.calls, 1)
        /\ \A i \in 1..Len(drain.queue) :
             drain.calls[i] # <<TRUE, TRUE>> => ResolvedInRun(i)
    ]_vars

\* A call of the analyzer returns None; a call of the store, of the log
\* directory or of the queue file fails.
AnalyzerFails == DrainAnalyze /\ IsNone(run'.analysis)
IOFails ==
  \/ RecordFail
  \/ LogResolve /\ pc' = "raised"
  \/ DrainSave /\ pc' = "raised"

\* The queue file holds an array of objects.
QueueOfEntries ==
  queueKind = "array" /\ \A i \in 1..Len(queueFile) : IsDict(queueFile[i])

\* C22: delivery through the retry queue is at-least-once.  An entry leaves
\* the queue file only in a run that resolved it; and, for a queue file that
\* holds entries, if runs are started again and again and from some time on
\* no call of the analyzer returns None and no store, log or queue I/O
\* fails, the queue file is eventually empty.
C22_AtLeastOnce ==
  /\ QueueLosesOnlyResolved
  /\ (/\ QueueOfEntries
      /\ []<><<DrainStart \/ DrainAgain>>_vars
      /\ <>[][~(AnalyzerFails \/ IOFails)]_vars)
     => <>(queueFile = <<>>)

\* ------------------------------------------- claims on overlapping calls
\* The step on which the call of process p returns.
Commits(p) == conc[p].pc = "db_commit" /\ conc'[p].rec.result = "returned"

\* The sum of a column over the rows of daily_stats.
CounterSum(st, column) ==
  SeqSum([i \in 1..Len(st.daily_stats) |-> st.daily_stats[i][column]])

CategoryColumn(cat) ==
  IF cat = spelling THEN "spelling_count"
  ELSE IF cat = grammar THEN "grammar_count"
  ELSE IF cat = style THEN "style_count"
  ELSE "vocabulary_count"

\* C23: two record operations of overlapping invocations never expose a
\* partially applied DailyCounter increment.  In every interleaving of
\* their steps, in every committed state the counters account for the
\* committed Corrections and their findings, each exactly once (the totals
\* add up to the number of Corrections, each category's counts to the
\* number of findings of that category); the committed state changes only
\* when a call commits; a commit adds to what was committed before it, the
\* other call's commit included, its Correction, its findings and its
\* increment on the date its upsert read (total + 1, each category + its
\* findings of that category) and leaves the other dates alone; and no
\* committed Correction is lost: there are as many Corrections as calls
\* that returned.
C23_NoPartialIncrement ==
  /\ [](/\ CounterSum(store, "total_corrections") = Len(store.corrections)
        /\ \A cat \in Categories :
             CounterSum(store, CategoryColumn(cat))
               = Cardinality({j \in 1..Len(store.errors) : store.errors[j].category = cat})
        /\ Len(store.corrections) = conc[1].committed + conc[2].committed)
  /\ [][/\ store' # store => \E p \in Procs : Commits(p)
        /\ \A p \in Procs :
             Commits(p) =>
               LET r == conc[p].rec
                   n == Len(store.corrections)
                   m == Len(store.errors)
                   d == r.upsert_date
                   old(cat) == IF d \in StatsDates(store.daily_stats)
                               THEN CountOf(StatsRow(store.daily_stats, d), cat) ELSE 0
                   oldTotal == IF d \in StatsDates(store.daily_stats)
                               THEN StatsRow(store.daily_stats, d).total_corrections
                               ELSE 0
               IN  /\ Len(store'.corrections) = n + 1
                   /\ SubSeq(store'.corrections, 1, n) = store.corrections
                   /\ Len(store'.errors) = m + Len(r.errors)
                   /\ SubSeq(store'.errors, 1, m) = store.errors
                   /\ StatsRow(store'.daily_stats, d).total_corrections = oldTotal + 1
                   /\ \A cat \in Categories :
                        CountOf(StatsRow(store'.daily_stats, d), cat)
                          = old(cat) + ExpectedCount(r.errors, cat)
                   /\ \A e \in StatsDates(store.daily_stats) \ {d} :
                        StatsRow(store'.daily_stats, e) = StatsRow(store.daily_stats, e)
       ]_vars

\* The two calls overlapped, both committed on the same date, each with
\* findings, and the counter reflects both.
C23_Witness ==
  /\ \A p \in Procs : conc[p].overlapped /\ conc[p].committed = 1 /\ conc[p].pc = "idle"
  /\ Len(store.daily_stats) = 1
  /\ store.daily_stats[1].total_corrections = 2
  /\ store.daily_stats[1].spelling_count = 1
  /\ store.daily_stats[1].style_count = 1
  /\ store.daily_stats[1].grammar_count = 1
  /\ Len(store.errors) = 3

\* ------------------------------------------ claims on the entries of a run
\* The step of recall.main that takes up the queue entry at drain.idx, an
\* object, and the one that calls the analyzer.
TakesUp == pc = "drain_item" /\ mode = "drain" /\ IsDict(drain.queue[drain.idx]) /\ drain' # drain
CallsAnalyzer == mode = "drain" /\ run'.analyzer_calls = run.analyzer_calls + 1

\* What C24 says of the calls made for the entries, in every state of a run.
AttemptsPerEntry ==
  mode = "drain" =>
    /\ \A i \in 1..Len(drain.queue) :
         /\ Len(drain.calls[i]) <= 2
         /\ Len(drain.calls[i]) = 2 => drain.calls[i][1] = TRUE
         /\ ~should_check_grammar(PromptOf(drain.queue[i])) => drain.calls[i] = <<>>
    /\ drain.still_failed = FailedTwice(drain.queue, drain.calls, 1)

\* The entry taken up is dropped without a call of the analyzer and counted
\* as resolved.
DroppedAsResolved ==
  /\ drain'.idx = drain.idx + 1
  /\ drain'.success_count = drain.success_count + 1
  /\ drain'.still_failed = drain.still_failed
  /\ drain'.calls = drain.calls
  /\ run'.analyzer_calls = run.analyzer_calls

ReceivesObject ==
  /\ pc = "analyze"
  /\ run'.analyzer_calls = run.analyzer_calls + 1
  /\ IsDict(run'.analysis)

\* Findings, or Clean with a rephrasing, and not Skipped.
ToBeWritten(a) ==
  /\ ~GetFlag(a, "skipped")
  /\ GetFlag(a, "has_errors") \/ Get(a, "better_expression", None) \notin {None, <<>>}

\* C25: for every admitted text and every analyzer result that is an
\* object, the retry path and the primary pipeline decide alike and write
\* alike, whichever of the two is running: nothing for Skipped or Clean
\* without rephrasing; otherwise one log block, built from the text and the
\* result (its beginning only, when the write fails), and one record whose original text, user text, findings,
\* rephrasing and summary are those of the text and the result.
C25_SameWrites ==
  [][/\ ReceivesObject
          => /\ run.admitted /\ should_check_grammar(run.user_prompt)
             /\ (pc' = "log_call") <=> ToBeWritten(run'.analysis)
             /\ ~ToBeWritten(run'.analysis)
                  => /\ pc' \notin ({"log_call", "log_write"} \cup DbPcs)
                     /\ store' = store /\ txn' = txn /\ logDocs' = logDocs
     /\ logDocs' # logDocs
          => /\ pc = "log_write" /\ run.log_result = "none"
             /\ ToBeWritten(run.analysis)
             /\ \E block \in {FormatBlock(run.user_prompt, run.analysis, today)} :
                  \/ /\ run'.log_result = "true"
                     /\ logDocs' = [logDocs EXCEPT ![run.file_date] = Append(@, block)]
                  \/ /\ run'.log_result = "false"
                     /\ logDocs' = [logDocs EXCEPT ![run.file_date] =
                                      Append(@, Partial(block))]
     /\ (pc' = "db_call" /\ pc # "db_call")
          => /\ pc = "log_write" /\ ToBeWritten(run.analysis)
             /\ rec'.original_text = run.user_prompt
             /\ rec'.user_text = Get(run.analysis, "user_text", run.user_prompt)
             /\ rec'.errors = Get(run.analysis, "errors", <<>>)
             /\ rec'.better_expression = Get(run.analysis, "better_expression", None)
             /\ rec'.summary = Get(run.analysis, "summary", None)
     /\ store' # store
          => /\ pc = "db_commit"
             /\ Len(store'.corrections) = Len(store.corrections) + 1
             /\ Last(store'.corrections).original_text = run.user_prompt
             /\ Last(store'.corrections).user_text
                  = Get(run.analysis, "user_text", run.user_prompt)
             /\ Last(store'.corrections).better_expression
                  = Get(run.analysis, "better_expression", None)
             /\ Last(store'.corrections).summary = Get(run.analysis, "summary", None)
             /\ Len(store'.errors) = Len(store.errors) + Len(Get(run.analysis, "errors", <<>>))
    ]_vars

\* The hook and then the drain have processed the same text with the same
\* result, Clean with a rephrasing: two equal log blocks, two Corrections
\* equal but for their id.
C25_Witness ==
  /\ DrainDone /\ drain.saved /\ runs = 2
  /\ ~GetFlag(run.analysis, "has_errors")
  /\ Len(logDocs[0]) = 2 /\ logDocs[0][1] = logDocs[0][2]
  /\ Len(store.corrections) = 2
  /\ [store.corrections[1] EXCEPT !.id = 2] = store.corrections[2]
  /\ store.daily_stats[1].total_corrections = 2

\* ------------------------------------------------ claims on the summary
\* C26: every drain run over a non-empty queue reports a summary that
\* carries the three counts resolved-ok, still-failed and
\* resolved-with-findings, with resolved-ok + still-failed equal to the
\* number of entries loaded and resolved-with-findings at most resolved-ok.
C26_SummaryOfThreeCounts ==
  (DrainDone /\ drain.queue # <<>>)
  => /\ {"ok", "still_failed", "with_findings"} \subseteq DOMAIN out.summary
     /\ out.summary.ok + out.summary.still_failed = Len(drain.queue)
     /\ out.summary.with_findings <= out.summary.ok

\* ------------------------------------------ claims on rejection by the filter
\* The step of the hook on which the Admission Filter is applied.
HookFilters == pc = "idle" /\ mode' = "primary" /\ run' # run /\ pc' # "raised"

\* C27: when the Admission Filter rejects the text, the primary pipeline
\* takes no further action: the invocation ends on that step, the analyzer
\* is not called, and the structured store, the log documents and the retry
\* queue are left unchanged; the analyzer and the sinks are reached only
\* with a text the filter admitted.
C27_RejectedDoesNothing ==
  [][/\ (HookFilters /\ ~should_check_grammar(run'.user_prompt))
          => /\ ~run'.admitted
             /\ pc' = "idle" /\ out'.exited
             /\ run'.analyzer_calls = 0
             /\ store' = store /\ txn' = txn /\ logDocs' = logDocs
             /\ queueFile' = queueFile /\ queueKind' = queueKind
     /\ (mode = "primary" /\ pc \notin {"idle", "raised"})
          => run.admitted /\ should_check_grammar(run.user_prompt)
     /\ (mode = "primary" /\ ~run.admitted)
          => /\ run'.analyzer_calls = 0
             /\ store' = store /\ logDocs' = logDocs /\ queueFile' = queueFile
    ]_vars

\* A hook invocation with a text of three tokens that begins with the slash
\* has ended: no analyzer call, nothing stored, logged or queued.
C27_Witness ==
  /\ HookDone
  /\ run.user_prompt = TextSlash
  /\ ~run.admitted
  /\ run.analyzer_calls = 0
  /\ out.stdout = <<"{}">>
  /\ store = EmptyStore /\ queueFile = <<>>
  /\ \A d \in Days : logDocs[d] = <<>>


\* doc is the beginning of doc2.
IsPrefixOf(doc, doc2) ==
  /\ Len(doc) <= Len(doc2)
  /\ \A i \in 1..Len(doc) : doc2[i] = doc[i]

\* The append call returns True in this step.
AppendSucceeds == pc = "log_write" /\ run'.log_result = "true"

\* C28: in every step, what each day's document held before is the beginning
\* of what it holds after; the date of the document is the one given, or
\* today's when none is given; an append that returns True adds exactly one
\* block, built from the text and the analysis and ending with the
\* separator, to the document of the resolved date, and leaves the documents
\* of all other dates as they were; and nothing but an append changes a
\* document.
C28_AppendOnly ==
  [][/\ \A d \in 0..MaxDay : IsPrefixOf(logDocs[d], logDocs'[d])
     /\ (pc = "log_call" /\ pc' = "log_write")
          => run'.file_date = IF run.target_date = NoDate THEN today
                              ELSE run.target_date
     /\ AppendSucceeds
          => /\ Len(logDocs'[run.file_date]) = Len(logDocs[run.file_date]) + 1
             /\ Last(logDocs'[run.file_date]) =
                  FormatBlock(run.user_prompt, run.analysis, today)
             /\ Last(logDocs'[run.file_date]).separator = <<"-", "-", "-">>
             /\ \A d \in (0..MaxDay) \ {run.file_date} : logDocs'[d] = logDocs[d]
     /\ logDocs' # logDocs
          => /\ pc = "log_write"
             /\ \A d \in 0..MaxDay : Len(logDocs'[d]) <= Len(logDocs[d]) + 1
    ]_vars

\* A second block has been added, with success, to the document of an
\* earlier day than today, named by the caller, after the first block of that
\* document; today's document is empty.
C28_Witness ==
  /\ mode = "log" /\ pc = "idle"
  /\ run.log_result = "true"
  /\ today = 1 /\ run.target_date = 0 /\ run.file_date = 0
  /\ Len(logDocs[0]) = 2
  /\ logDocs[0][1].separator = <<"-", "-", "-">>
  /\ logDocs[0][2].separator = <<"-", "-", "-">>
  /\ logDocs[1] = <<>>


\* The rule has been applied to run.user_prompt.
ShareApplied == mode = "share"

\* C29: the primarily-Chinese rule rejects a text exactly when its count of
\* CJK ideographs is strictly more than 30% of the count of CJK ideographs
\* and Latin letters together, or when both counts are zero; at exactly 30%
\* it does not reject.
C29_StrictlyMoreThanThirty ==
  ShareApplied
  => LET cjk == CountCJK(run.user_prompt)
         latin == CountLatin(run.user_prompt)
     IN  /\ run.primarily_chinese
              <=> (cjk + latin = 0 \/ 10 * cjk > 3 * (cjk + latin))
         /\ (cjk + latin > 0 /\ 10 * cjk = 3 * (cjk + latin))
              => ~run.primarily_chinese

\* A text of 3 CJK ideographs and 7 Latin letters was not rejected.
C29_Witness ==
  /\ ShareApplied
  /\ CountCJK(run.user_prompt) = 3
  /\ CountLatin(run.user_prompt) = 7
  /\ ~run.primarily_chinese


\* A started invocation reaches its end.
Terminates == (pc # "idle") ~> (pc = "idle" /\ out.exited)

\* The analyzer calls of the invocation so far are within the bound.
CallsWithinBounds ==
  /\ mode = "primary" => run.analyzer_calls <= 1
  /\ mode = "drain" => run.analyzer_calls <= 2 * Len(run.queue0)

\* The entries are taken up one after the other, none twice.
EachEntryAtMostOnce ==
  [][mode = "drain" /\ mode' = "drain"
       => drain'.idx \in {drain.idx, drain.idx + 1}]_vars

\* A run that has ended has taken up every entry of the queue it loaded and
\* has dealt with it.
EveryEntryProcessed ==
  (DrainDone /\ run.queue0 # <<>> /\ queueKind = "array")
    => drain.idx = Len(run.queue0) + 1

\* C30: every invocation reaches its end; the hook calls the analyzer at most
\* once; a drain run over a queue of n entries calls it at most 2n times and
\* has processed each entry exactly once when it ends.
C30_TerminatesWithinBounds ==
  /\ Terminates
  /\ []CallsWithinBounds
  /\ EachEntryAtMostOnce
  /\ []EveryEntryProcessed


\* ------------------------------------------- claims on the queue file
\* The step changes the queue file.
QueueFileChanges == queueFile' # queueFile \/ queueKind' # queueKind

\* The step changes something that outlives the run.
PersistentChanges ==
  QueueFileChanges \/ store' # store \/ txn' # txn \/ logDocs' # logDocs

\* C31: a drain run writes the queue file at most once, in the step that
\* follows the processing of its last entry, and nothing that outlives the
\* run changes after that step; a successful write leaves the entries that
\* are still failed; when the loaded queue is empty, or the run is ended by
\* an exception while an entry is processed, the queue file is as it was
\* loaded.
C31_QueueWrittenOnceAtEnd ==
  /\ [][/\ QueueFileChanges
             => /\ mode = "drain" /\ pc = "drain_save"
                /\ drain.queue # <<>>
                /\ drain.idx = Len(drain.queue) + 1
                /\ ~drain.saved
                /\ pc' \in {"idle", "raised"}
        /\ (pc = "drain_save" /\ pc' = "idle")
             => /\ queueFile' = drain.still_failed /\ queueKind' = "array"
                /\ drain'.saved
        /\ (mode = "drain" /\ mode' = "drain" /\ PersistentChanges)
             => ~drain.saved /\ pc # "raised"
       ]_vars
  /\ [](/\ DrainDone
        /\ drain.queue = <<>> \/ (out.status = 1 /\ drain.idx <= Len(drain.queue))
        => queueFile = run.queue0)

\* A run over two entries has ended after writing the queue file: the first
\* entry was recorded and has left the file, the second failed twice and is
\* the file's only entry.
C31_Witness ==
  /\ DrainDone /\ drain.saved /\ out.status = 0
  /\ Len(run.queue0) = 2
  /\ Len(store.corrections) = 1
  /\ queueFile = <<run.queue0[2]>>
  /\ queueFile # run.queue0


\* ------------------------------------- claims on two runs at the same time
\* Both runs have ended, and both had loaded the same queue, with entries.
RaceOver ==
  /\ \A p \in Procs : conc[p].loaded /\ conc[p].pc = "idle"
  /\ conc[1].queue = conc[2].queue
  /\ conc[1].queue # <<>>

\* The queue the file gives to the next run that loads it.
FinalQueue == IF queueKind = "array" THEN queueFile ELSE <<>>

\* Run p resolved the entry at position i of the queue it loaded.
ResolvedBy(p, i) ==
  \/ ~should_check_grammar(PromptOf(conc[p].queue[i]))
  \/ i \in conc[p].resolved

\* C32: when two runs that loaded the same queue have ended, however their
\* steps were interleaved, every entry of that queue that is absent from the
\* queue file was resolved by at least one of the two runs.
C32_NoUnresolvedLost ==
  RaceOver
  => \A i \in 1..Len(conc[1].queue) :
       (\A k \in 1..Len(FinalQueue) : FinalQueue[k] # conc[1].queue[i])
         => \E p \in Procs : ResolvedBy(p, i)

====
